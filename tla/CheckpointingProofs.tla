------------------------ MODULE CheckpointingProofs ------------------------
(***************************************************************************)
(* Proofs about Checkpointing, for every dataset, every batch, trigger and *)
(* save frequency, every number of checkpoints kept, and every number of   *)
(* crashes and of samples lost on the way.                                 *)
(***************************************************************************)
EXTENDS Checkpointing, FiniteSetTheorems, SequenceTheorems, TLAPS

\* All draws that one process can make; the processes that have drawn so far;
\* the training steps of the versions before v, and of l - 1 steps in v.
OneLife == DataSize * Epochs
Lives == IF pc = "down" THEN crashes ELSE crashes + 1
Steps(v, l) == Required * (v * Trigger + (l - 1))

Saving == {"actor", "actorWrites", "critic", "criticWrites", "data", "open", "write"}
ActorSaved == {"critic", "criticWrites", "data", "open", "write"}
AllSaved == {"data", "open", "write"}
Pcs == Saving \union {"train", "down", "failed", "over"}
Models == {"actor", "critic"}

\* What may be on the way or on disk after n lives: no sample past theirs.
Drawn(n) == n * OneLife

\* The state has its type.
Typed ==
  /\ keep \in Nat /\ useCritic \in BOOLEAN
  /\ dirs \in [Versions -> [actor : Shards, critic : Shards, data : Int]]
  /\ tracked \in Versions \union {0} /\ tracker \in Versions \union {Absent, Unreadable}
  /\ pc \in Pcs /\ version \in Versions \union {0} /\ local \in 1..Trigger
  /\ ckpt \in 0..version
  /\ trained \subseteq 1..pos /\ final \in BOOLEAN
  /\ kept \in [actor : Seq(Versions), critic : Seq(Versions)]
  /\ pos \in Nat /\ supply \in Nat /\ step \in Nat \ {0} /\ done \in BOOLEAN
  /\ pending \subseteq 1..pos /\ Cardinality(pending) <= MaxInFlight
  /\ lost \subseteq 1..pos /\ lostBefore \subseteq 1..pos
  /\ crashes \in 0..MaxCrashes

\* Nothing is past what the processes so far could draw.
InReach ==
  /\ pos <= supply /\ supply <= Drawn(crashes + 1)
  /\ \A v \in Versions : dirs[v].data \in -1..Drawn(Lives)

\* A whole checkpoint of v holds weights that were trained on draws before the
\* position beside them, on all but what was on the way then and before or was
\* lost, and on as many as v counts, or the steps of an unfinished version more.
Sound(v) ==
  LET weights == dirs[v].actor.of
      data    == dirs[v].data
  IN /\ data \in Nat
     /\ dirs[v].actor.state = "whole" =>
          /\ weights \subseteq 1..data
          /\ Cardinality((1..data) \ (weights \union lost \union lostBefore)) <= Lives * MaxInFlight
          /\ Cardinality(weights) - Steps(v, 1) \in 0..(Lives * ((Trigger - 1) * Required))
     /\ Steps(v, 1) < Total + Lives

\* The tracker names the last checkpoint that was finished, which is sound, and
\* whole unless the rotation keeps no other beside the one being written.
Tracks ==
  /\ Up => ckpt = tracked /\ tracker = IF pc = "write" THEN Unreadable ELSE tracked
  /\ pc = "down" => tracker \in {tracked, Unreadable}
  /\ pc = "failed" /\ keep /= 1 => tracker = Unreadable
  /\ pc \notin {"over", "failed"} /\ tracked > 0 =>
       Sound(tracked) /\ (keep /= 1 => Complete(tracked))

\* A save is of a version newer than the last, and what it has written so far
\* is what was trained.
Saves ==
  /\ pc \in Saving => version > ckpt
  /\ pc \in ActorSaved => dirs[version].actor = [state |-> "whole", of |-> trained]
  /\ pc \in AllSaved => Complete(version)
  /\ pc \in {"open", "write"} /\ ~final => Sound(version)
  /\ pc = "train" => ~final
  /\ pc \in {"critic", "criticWrites"} => useCritic

\* The version that the list of a model's checkpoints ends with.
Newest(m) == IF pc \in AllSaved \/ (m = "actor" /\ pc \in ActorSaved) THEN version ELSE ckpt

InOrder(saved) == \A i, j \in 1..Len(saved) : i < j => saved[i] < saved[j]

\* The list of a model's checkpoints is in order and ends with the newest; a
\* job that died has no list, and nothing on the way.
Listed ==
  /\ Up => \A m \in Models :
       /\ InOrder(kept[m])
       /\ kept[m] /= <<>> => kept[m][Len(kept[m])] = Newest(m)
       /\ m = "critic" /\ ~useCritic => kept[m] = <<>>
  /\ pc = "down" => pending = {} /\ \A m \in Models : kept[m] = <<>>

\* Rollouter and trainer count alike, and count no further than the last step
\* and one sample for each restart.
Counts ==
  LET counted == Steps(version, local) IN
  /\ Up /\ ~final =>
       /\ Cardinality(trained) - counted \in 0..(crashes * ((Trigger - 1) * Required))
       /\ counted + Cardinality(pending) + Cardinality(lost) <= Total + crashes
       /\ ~done => step - 1 = counted + Cardinality(pending) + Cardinality(lost)
  /\ Up => step <= Total + crashes

CheckpointInv == Typed /\ InReach /\ Tracks /\ Saves /\ Listed /\ Counts /\ Accounted
-----------------------------------------------------------------------------
(* Arithmetic of the counts.                                               *)

\* The constants, one by one.
LEMMA Sizes ==
  /\ DataSize \in Nat \ {0} /\ Epochs \in Nat \ {0} /\ Total \in Nat \ {0}
  /\ Required \in Nat \ {0} /\ Trigger \in Nat \ {0} /\ MaxInFlight \in Nat \ {0}
  /\ Keeps \subseteq Nat /\ MaxCrashes \in Nat /\ MaxLosses \in Nat
  /\ OneLife \in Nat \ {0} /\ (Trigger - 1) * Required \in Nat
BY CheckpointingAssumption DEF OneLife

\* One more of what each of n lives may add.
LEMMA OneMore ==
  ASSUME NEW n \in Nat, NEW k \in Nat
  PROVE  n * k \in Nat /\ (n + 1) * k = n * k + k /\ n * k <= (n + 1) * k
<1>1. (n + 1) * k = n * k + k /\ n * k \in Nat  OBVIOUS
<1> QED  BY <1>1

\* More lives, no less of it.
LEMMA Grows ==
  ASSUME NEW m \in Nat, NEW n \in Nat, NEW k \in Nat, m <= n
  PROVE  m * k \in Nat /\ n * k \in Nat /\ m * k <= n * k
<1>1. n * k = m * k + (n - m) * k /\ (n - m) \in Nat  OBVIOUS
<1>2. (n - m) * k \in Nat /\ m * k \in Nat  BY <1>1
<1> QED  BY <1>1, <1>2

\* How training steps are counted within a version and from one to the next.
LEMMA StepsOf ==
  ASSUME NEW v \in Nat, NEW l \in 1..Trigger
  PROVE  /\ Steps(v, l) \in Nat
         /\ Steps(v, l + 1) = Steps(v, l) + Required
         /\ l = Trigger => Steps(v + 1, 1) = Steps(v, l) + Required
         /\ Steps(v, 1) = v * Required * Trigger
         /\ v <= Steps(v, 1)
         /\ Steps(v, 1) <= Steps(v, l)
         /\ Steps(v, l) <= Steps(v, 1) + (Trigger - 1) * Required
<1> USE Sizes DEF Steps
<1>1. v * Trigger \in Nat /\ Required * (v * Trigger) \in Nat  OBVIOUS
<1>2. Steps(v, l) = Steps(v, 1) + (l - 1) * Required /\ Steps(v, 1) = Required * (v * Trigger)
  BY <1>1
<1>3. (l - 1) * Required \in Nat /\ (l - 1) * Required <= (Trigger - 1) * Required
  BY Grows
<1>4. v <= v * Trigger
  BY Grows, <1>1, 1 * v = v, v * Trigger = Trigger * v
<1>5. v * Trigger <= Required * (v * Trigger)
  BY Grows, <1>1, 1 * (v * Trigger) = v * Trigger
<1>6. Steps(v, l + 1) = Steps(v, l) + Required  BY <1>1
<1>7. l = Trigger => Steps(v + 1, 1) = Steps(v, l) + Required  BY <1>1
<1>8. Required * (v * Trigger) = v * Required * Trigger  BY <1>1
<1> QED  BY <1>1, <1>2, <1>3, <1>4, <1>5, <1>6, <1>7, <1>8

\* A process that starts after p draws of n lives can draw up to the next life's
\* end, and nothing already drawn.
LEMMA EndReached ==
  ASSUME NEW n \in Nat, NEW p \in 0..Drawn(n)
  PROVE  EndOfData(p) \in Nat /\ p <= EndOfData(p) /\ EndOfData(p) <= Drawn(n + 1)
<1> USE Sizes
<1>1. Drawn(n) \in Nat /\ Drawn(n + 1) = Drawn(n) + OneLife  BY OneMore DEF Drawn
<1>2. CASE p = 0
  BY <1>1, <1>2 DEF EndOfData, OneLife
<1>3. CASE p > 0
  <2> DEFINE q == (p - 1) \div DataSize
  <2>1. q \in Nat /\ DataSize * q <= p - 1 /\ p - 1 < DataSize * q + DataSize
    BY <1>1, <1>3
  <2>2. EndOfData(p) = DataSize * q + OneLife
    BY <1>3, <2>1 DEF EndOfData, OneLife
  <2>3. DataSize <= OneLife  BY Grows, 1 * DataSize = DataSize DEF OneLife
  <2> HIDE DEF q
  <2> QED  BY <1>1, <2>1, <2>2, <2>3
<1> QED  BY <1>1, <1>2, <1>3
\* Sets of samples are finite, and what is taken from one is missing in it.
LEMMA Samples ==
  ASSUME NEW n \in Nat, NEW S \in SUBSET (1..n)
  PROVE  /\ IsFiniteSet(S) /\ Cardinality(S) \in Nat
         /\ \A T \in SUBSET S : /\ IsFiniteSet(T) /\ Cardinality(T) \in Nat
                                /\ Cardinality(T) <= Cardinality(S)
                                /\ Cardinality(S \ T) = Cardinality(S) - Cardinality(T)
<1>1. IsFiniteSet(S)
  <2>1. IsFiniteSet(1..n)  BY FS_Interval
  <2> QED  BY <2>1, FS_Subset
<1>2. ASSUME NEW T \in SUBSET S
      PROVE  /\ IsFiniteSet(T) /\ Cardinality(T) <= Cardinality(S)
             /\ Cardinality(S \ T) = Cardinality(S) - Cardinality(T)
  <2>1. IsFiniteSet(T) /\ Cardinality(T) <= Cardinality(S)  BY <1>1, FS_Subset
  <2>2. S \intersect T = T  OBVIOUS
  <2> QED  BY <1>1, <2>1, <2>2, FS_Difference
<1> QED  BY <1>1, <1>2, FS_CardinalityType

\* The samples of two sets that have none in common.
LEMMA Together ==
  ASSUME NEW n \in Nat, NEW S \in SUBSET (1..n), NEW T \in SUBSET (1..n), S \intersect T = {}
  PROVE  Cardinality(S \union T) = Cardinality(S) + Cardinality(T)
<1>1. IsFiniteSet(S) /\ IsFiniteSet(T)  BY Samples
<1>2. Cardinality(S \union T) = Cardinality(S) + Cardinality(T) - Cardinality(S \intersect T)
  BY <1>1, FS_Union
<1>3. Cardinality(S) \in Nat /\ Cardinality(T) \in Nat  BY Samples
<1>4. Cardinality(S \intersect T) = 0  BY FS_EmptySet
<1> QED  BY <1>2, <1>3, <1>4

\* The sizes that are compared are numbers.
LEMMA CountsTyped ==
  ASSUME Typed
  PROVE  /\ version \in Nat /\ Steps(version, local) \in Nat /\ Steps(version, 1) \in Nat
         /\ IsFiniteSet(pending) /\ Cardinality(pending) \in Nat
         /\ IsFiniteSet(trained) /\ Cardinality(trained) \in Nat
         /\ IsFiniteSet(lost) /\ Cardinality(lost) \in Nat
<1>1. version \in Nat /\ local \in 1..Trigger  BY Sizes DEF Typed, Versions
<1>2. Steps(version, local) \in Nat /\ Steps(version, 1) \in Nat
  <2>1. 1 \in 1..Trigger  BY Sizes
  <2>2. Steps(version, local) \in Nat  BY <1>1, StepsOf
  <2>3. Steps(version, 1) \in Nat  BY <1>1, <2>1, StepsOf
  <2> QED  BY <2>2, <2>3
<1>3. pos \in Nat /\ {pending, trained, lost} \subseteq SUBSET (1..pos)  BY DEF Typed
<1> QED  BY <1>1, <1>2, <1>3, Samples
-----------------------------------------------------------------------------
LEMMA InitInv == Init => CheckpointInv
<1> SUFFICES ASSUME Init PROVE CheckpointInv  OBVIOUS
<1> USE Sizes, FS_EmptySet
<1>1. Typed
  <2>1. {} \subseteq 1..pos /\ NoShards \in Shards  BY DEF Init, NoShards, Shards
  <2>2. dirs \in [Versions -> [actor : Shards, critic : Shards, data : Int]]
    BY <2>1 DEF Init, NoDir
  <2>3. kept \in [actor : Seq(Versions), critic : Seq(Versions)]  BY DEF Init
  <2>4. supply \in Nat  BY EndReached, 0 \in 0..Drawn(0) DEF Init, Drawn
  <2>5. /\ keep \in Nat /\ useCritic \in BOOLEAN /\ tracked = 0 /\ tracker = Absent /\ pc \in Pcs
        /\ version = 0 /\ local \in 1..Trigger /\ ckpt \in 0..version /\ trained = {}
    BY DEF Init, Pcs
  <2>6. /\ pos \in Nat /\ step = 1 /\ pending = {} /\ crashes \in 0..MaxCrashes
        /\ pending \subseteq 1..pos /\ trained \subseteq 1..pos
        /\ lost \subseteq 1..pos /\ lostBefore \subseteq 1..pos
        /\ Cardinality(pending) = 0
    BY DEF Init
  <2>7. final \in BOOLEAN /\ done \in BOOLEAN  BY DEF Init
  <2> QED  BY <2>2, <2>3, <2>4, <2>5, <2>6, <2>7 DEF Typed
<1>2. InReach
  <2>1. Drawn(0) = 0 /\ Drawn(1) = OneLife /\ supply <= Drawn(1) /\ 0 <= supply
    BY EndReached, 0 \in 0..Drawn(0), 0 + 1 = 1 DEF Init, Drawn
  <2> QED  BY <2>1 DEF Init, InReach, NoDir, Lives
<1>3. Tracks  BY DEF Init, Tracks, Absent, Up
<1>4. Saves  BY DEF Init, Saves, Saving, ActorSaved, AllSaved
<1>5. Listed
  <2>1. kept["actor"] = <<>> /\ kept["critic"] = <<>>  BY DEF Init
  <2>2. InOrder(<<>>)  BY DEF InOrder
  <2> QED  BY <2>1, <2>2 DEF Init, Listed, Models
<1>6. Counts
  <2>1. Steps(0, 1) = 0 /\ 0 * ((Trigger - 1) * Required) = 0  BY DEF Steps
  <2> QED  BY <2>1 DEF Init, Counts
<1>7. Accounted
  <2>1. (1..pos) \ (trained \union pending \union lost \union lostBefore) = {}  BY DEF Init
  <2> QED  BY <2>1 DEF Init, Accounted
<1> QED  BY <1>1, <1>2, <1>3, <1>4, <1>5, <1>6, <1>7 DEF CheckpointInv

\* A sample that is drawn is new, and is counted by the rollouter unless it is
\* the last; it is on its way.
LEMMA FeedKeeps == CheckpointInv /\ Feed => CheckpointInv'
<1> SUFFICES ASSUME CheckpointInv, Feed PROVE CheckpointInv'  OBVIOUS
<1> USE Sizes DEF CheckpointInv
<1>1. /\ Up /\ ~done /\ pos <= supply
      /\ UNCHANGED <<keep, useCritic, dirs, tracker, tracked, pc, version, local, ckpt, trained,
                     kept, final, supply, lost, lostBefore, crashes>>
  BY DEF Feed, disk, trainer, losses, InReach
<1>2. /\ pos' \in Nat /\ pos <= pos' /\ pos' <= supply
      /\ pending' \subseteq 1..pos'
      /\ pending' \intersect (trained \union lost) = pending \intersect (trained \union lost)
      /\ Cardinality(pending') <= MaxInFlight
      /\ (1..pos') \ (trained \union pending' \union lost \union lostBefore)
           = (1..pos) \ (trained \union pending \union lost \union lostBefore)
      /\ step' \in {step, step + 1} /\ (step' <= Total \/ step' = step)
      /\ Cardinality(pending') \in Nat
      /\ Cardinality(pending') - Cardinality(pending) \in {0, 1}
      /\ ~done' => step' - step = Cardinality(pending') - Cardinality(pending)
  <2> USE <1>1 DEF Typed, InReach
  <2>1. Cardinality(pending) \in Nat /\ IsFiniteSet(pending)  BY Samples
  <2>2. CASE pos = supply
    <3>1. pos' = pos /\ pending' = pending /\ step' = step /\ done'
      BY <2>2 DEF Feed, FeedEnds
    <3> QED  BY <2>1, <3>1
  <2>3. CASE pos /= supply
    <3>1. /\ Cardinality(pending) < MaxInFlight
          /\ pos' = pos + 1 /\ pending' = pending \union {pos + 1}
          /\ done' <=> step >= Total
          /\ step' = IF step >= Total THEN step ELSE step + 1
      BY <2>3 DEF Feed, FeedEnds
    <3>2. pos + 1 \notin pending \union trained \union lost \union lostBefore  OBVIOUS
    <3>3. Cardinality(pending') = Cardinality(pending) + 1  BY <2>1, <3>1, <3>2, FS_AddElement
    <3>4. /\ pending' \subseteq 1..pos'
          /\ pending' \intersect (trained \union lost) = pending \intersect (trained \union lost)
          /\ (1..pos') \ (trained \union pending' \union lost \union lostBefore)
               = (1..pos) \ (trained \union pending \union lost \union lostBefore)
      BY <3>1, <3>2, SMTT(60)
    <3>5. pos' \in Nat /\ pos <= pos' /\ pos' <= supply  BY <2>3, <3>1
    <3>6. /\ step' \in {step, step + 1} /\ (step' <= Total \/ step' = step)
          /\ ~done' => step' - step = 1
      BY <3>1
    <3> QED  BY <2>1, <3>1, <3>3, <3>4, <3>5, <3>6, SMTT(60)
  <2> QED  BY <2>2, <2>3
<1>3. Typed'
  <2>1. trained' \subseteq 1..pos' /\ lost' \subseteq 1..pos' /\ lostBefore' \subseteq 1..pos'
    BY <1>1, <1>2 DEF Typed
  <2>2. done' \in BOOLEAN /\ step' \in Nat \ {0}  BY <1>2 DEF Feed, FeedEnds, Typed
  <2> QED  BY <1>1, <1>2, <2>1, <2>2 DEF Typed
<1>4. InReach'  BY <1>1, <1>2 DEF InReach, Lives
<1>5. Tracks'  BY <1>1 DEF Tracks, Sound, Complete, Lives, Up
<1>6. Saves'  BY <1>1 DEF Saves, Sound, Complete, Lives
<1>7. Listed'  BY <1>1 DEF Listed, Newest, Up
<1>8. Counts'
  <2>1. Steps(version, local) \in Nat /\ Cardinality(pending) \in Nat /\ Cardinality(lost) \in Nat
    BY CountsTyped
  <2>2. Steps(version, local)' = Steps(version, local)  BY <1>1 DEF Steps
  <2>3. step \in Nat /\ crashes \in Nat  BY DEF Typed
  <2> QED  BY <1>1, <1>2, <2>1, <2>2, <2>3 DEF Counts, Up
<1>9. Accounted'
  <2>1. trained \subseteq 1..pos'  BY <1>2 DEF Typed
  <2> QED  BY <1>1, <1>2, <2>1 DEF Accounted, Up
<1> QED  BY <1>3, <1>4, <1>5, <1>6, <1>7, <1>8, <1>9

\* Samples that are lost are counted as lost from then on, and no longer as on
\* their way.
LEMMA LoseKeeps ==
  ASSUME CheckpointInv, Up, NEW gone \in SUBSET pending, Lose(gone), done' \in {done, TRUE},
         UNCHANGED <<keep, useCritic, disk, trainer, pos, supply, step, lostBefore, crashes>>
  PROVE  CheckpointInv'
<1> USE Sizes DEF CheckpointInv
<1>1. /\ UNCHANGED <<keep, useCritic, dirs, tracker, tracked, pc, version, local, ckpt, trained,
                     kept, final, pos, supply, step, lostBefore, crashes>>
      /\ pending' = pending \ gone /\ lost' = lost \union gone
  BY DEF disk, trainer, Lose
<1>2. /\ pos \in Nat /\ crashes \in Nat /\ step \in Nat /\ done' \in BOOLEAN
      /\ pending \in SUBSET (1..pos) /\ lost \in SUBSET (1..pos)
      /\ gone \in SUBSET (1..pos) /\ lost \intersect gone = {}
      /\ pending \intersect (trained \union lost) = {} /\ trained \intersect lost = {}
      /\ Cardinality(pending) <= MaxInFlight
  <2>1. /\ pos \in Nat /\ crashes \in Nat /\ step \in Nat /\ done \in BOOLEAN
        /\ pending \in SUBSET (1..pos) /\ lost \in SUBSET (1..pos)
        /\ Cardinality(pending) <= MaxInFlight
    BY DEF Typed
  <2>2. done' \in BOOLEAN
    <3>1. CASE done' = done  BY <2>1, <3>1
    <3>2. CASE done' = TRUE  BY <3>2
    <3> QED  BY <3>1, <3>2
  <2>3. pending \intersect (trained \union lost) = {} /\ trained \intersect lost = {}
    BY DEF Accounted
  <2>4. gone \in SUBSET (1..pos) /\ lost \intersect gone = {}  BY <2>1, <2>3
  <2> QED  BY <2>1, <2>2, <2>3, <2>4
<1>3. /\ Cardinality(pending') = Cardinality(pending) - Cardinality(gone)
      /\ Cardinality(lost') = Cardinality(lost) + Cardinality(gone)
      /\ Cardinality(pending) \in Nat /\ Cardinality(lost) \in Nat /\ Cardinality(gone) \in Nat
      /\ Cardinality(pending') \in Nat
  <2>1. Cardinality(lost \union gone) = Cardinality(lost) + Cardinality(gone)
    <3>1. /\ pos \in Nat /\ lost \in SUBSET (1..pos) /\ gone \in SUBSET (1..pos)
          /\ lost \intersect gone = {}
      BY <1>2
    <3> QED  BY ONLY <3>1, Together
  <2>2. /\ Cardinality(pending \ gone) = Cardinality(pending) - Cardinality(gone)
        /\ Cardinality(gone) \in Nat
    BY <1>2, Samples
  <2>3. pending \ gone \in SUBSET (1..pos)  BY <1>2
  <2>4. Cardinality(pending \ gone) \in Nat  BY <1>2, <2>3, Samples
  <2> QED  BY <1>1, <2>1, <2>2, <2>4, CountsTyped
<1>4. Typed'
  <2>1. pending' \subseteq 1..pos' /\ lost' \subseteq 1..pos' /\ Cardinality(pending') <= MaxInFlight
    BY <1>1, <1>2, <1>3
  <2> QED  BY <1>1, <1>2, <2>1 DEF Typed
<1>5. InReach'  BY <1>1 DEF InReach, Lives
<1>6. ASSUME NEW v, Sound(v) PROVE Sound(v)'
  <2>1. Lives' = Lives /\ Lives \in Nat /\ Steps(v, 1)' = Steps(v, 1) /\ dirs'[v] = dirs[v]
    BY <1>1, <1>2 DEF Lives, Steps
  <2>2. dirs[v].data \in Nat  BY <1>6 DEF Sound
  <2> DEFINE was == (1..dirs[v].data) \ (dirs[v].actor.of \union lost \union lostBefore)
             is  == (1..dirs[v].data) \ (dirs[v].actor.of \union lost' \union lostBefore')
  <2>3. is \in SUBSET was /\ was \in SUBSET (1..dirs[v].data)  BY <1>1
  <2>4. dirs[v].actor.state = "whole" => Cardinality(was) <= Lives * MaxInFlight
    BY <1>6 DEF Sound
  <2>5. Cardinality(is) <= Cardinality(was) /\ Cardinality(is) \in Nat /\ Cardinality(was) \in Nat
    <3> HIDE DEF is, was
    <3> QED  BY <2>2, <2>3, Samples
  <2>6. Lives * MaxInFlight \in Nat  BY <2>1, OneMore
  <2>7. dirs[v].actor.state = "whole" => Cardinality(is) <= Lives * MaxInFlight
    <3> HIDE DEF is, was
    <3> QED  BY <2>4, <2>5, <2>6
  <2> QED  BY <1>6, <2>1, <2>7 DEF Sound
<1>7. Tracks'
  <2>1. Sound(tracked) => Sound(tracked)'  BY <1>1, <1>6
  <2> QED  BY <1>1, <2>1 DEF Tracks, Complete, Up
<1>8. Saves'
  <2>1. Sound(version) => Sound(version)'  BY <1>1, <1>6
  <2> QED  BY <1>1, <2>1 DEF Saves, Complete
<1>9. Listed'  BY <1>1 DEF Listed, Newest, Up
<1>10. Counts'
  <2>1. Steps(version, local) \in Nat /\ Steps(version, local)' = Steps(version, local)
    BY <1>1, CountsTyped DEF Steps
  <2>2. Cardinality(pending') + Cardinality(lost') = Cardinality(pending) + Cardinality(lost)
    BY <1>3
  <2>3. ~done' => ~done
    <3>1. CASE done' = done  BY <3>1
    <3>2. CASE done' = TRUE  BY <3>2
    <3> QED  BY <3>1, <3>2
  <2>4. Cardinality(lost') \in Nat  BY <1>3
  <2> QED  BY <1>1, <1>2, <1>3, <2>1, <2>2, <2>3, <2>4 DEF Counts, Up
<1>11. Accounted'
  <2>1. /\ trained \union pending' \union lost' \union lostBefore
             = trained \union pending \union lost \union lostBefore
        /\ pending' \intersect (trained \union lost') = {} /\ trained \intersect lost' = {}
    BY <1>1, <1>2
  <2> QED  BY <1>1, <2>1 DEF Accounted, Up
<1> QED  BY <1>4, <1>5, <1>7, <1>8, <1>9, <1>10, <1>11

\* After a training step another version may be due for a save; never an older.
LEMMA SaveChecked ==
  ASSUME NEW v, NEW otherwise, CheckSave(v, otherwise)
  PROVE  pc' = otherwise \/ (pc' = "actor" /\ v /= ckpt)
BY DEF CheckSave

\* A training step takes its samples from those on the way, and is counted once.
LEMMA TrainStepKeeps == CheckpointInv /\ TrainStep => CheckpointInv'
<1> SUFFICES ASSUME CheckpointInv, TrainStep PROVE CheckpointInv'  OBVIOUS
<1> USE Sizes DEF CheckpointInv
<1>1. /\ pc = "train" /\ Up /\ ~final
      /\ UNCHANGED <<keep, useCritic, dirs, tracker, tracked, ckpt, kept, final, pos, supply, step,
                     done, lost, lostBefore, crashes>>
  BY DEF TrainStep, disk, losses, Up, Saves
<1>2. pc' \in {"train", "actor"} /\ (pc' = "actor" => version' /= ckpt)
  BY SaveChecked DEF TrainStep
<1>3. PICK batch \in SUBSET pending :
        /\ Cardinality(batch) = Required
        /\ trained' = trained \union batch /\ pending' = pending \ batch
  BY DEF TrainStep
<1>4. /\ version \in Nat /\ local \in 1..Trigger /\ ckpt \in 0..version /\ crashes \in 0..MaxCrashes
      /\ pos \in Nat /\ pending \in SUBSET (1..pos) /\ trained \in SUBSET (1..pos)
      /\ pending \intersect (trained \union lost) = {} /\ trained \intersect lost = {}
  BY <1>1, CountsTyped DEF Typed, Accounted
<1>5. /\ pending' \in SUBSET (1..pos) /\ trained' \in SUBSET (1..pos)
      /\ pending' \intersect (trained' \union lost) = {} /\ trained' \intersect lost = {}
      /\ trained' \union pending' = trained \union pending
      /\ Cardinality(pending') = Cardinality(pending) - Required
      /\ Cardinality(trained') = Cardinality(trained) + Required
      /\ Cardinality(pending') \in Nat /\ Cardinality(trained') \in Nat
  <2>1. batch \in SUBSET (1..pos) /\ trained \intersect batch = {}  BY <1>3, <1>4
  <2>2. Cardinality(trained \union batch) = Cardinality(trained) + Cardinality(batch)
    <3>1. pos \in Nat /\ trained \in SUBSET (1..pos)  BY <1>4
    <3> QED  BY ONLY <3>1, <2>1, Together
  <2>3. Cardinality(pending \ batch) = Cardinality(pending) - Cardinality(batch)
    BY <1>3, <1>4, Samples
  <2>4. /\ pending' \in SUBSET (1..pos) /\ trained' \in SUBSET (1..pos)
        /\ pending' \intersect (trained' \union lost) = {} /\ trained' \intersect lost = {}
        /\ trained' \union pending' = trained \union pending
    BY <1>3, <1>4, <2>1
  <2>5. Cardinality(pending') \in Nat /\ Cardinality(trained') \in Nat  BY <1>4, <2>4, Samples
  <2> QED  BY <1>3, <2>2, <2>3, <2>4, <2>5
<1>6. /\ version' \in {version, version + 1} /\ local' \in 1..Trigger
      /\ Steps(version', local') = Steps(version, local) + Required
  <2>1. CASE local < Trigger
    <3>1. version' = version /\ local' = local + 1  BY <2>1 DEF TrainStep, AfterStep
    <3> QED  BY <1>4, <2>1, <3>1, StepsOf
  <2>2. CASE local = Trigger
    <3>1. version' = version + 1 /\ local' = 1  BY <1>4, <2>2 DEF TrainStep, AfterStep
    <3> QED  BY <1>4, <2>2, <3>1, StepsOf
  <2> QED  BY <1>4, <2>1, <2>2
<1>7. Counts'
  <2>1. /\ Steps(version, local) \in Nat /\ Cardinality(pending) \in Nat
        /\ Cardinality(trained) \in Nat /\ Cardinality(lost) \in Nat
    BY CountsTyped
  <2>2. Steps(version, local)' = Steps(version', local')  BY DEF Steps
  <2>3. step \in Nat  BY DEF Typed
  <2> QED  BY <1>1, <1>2, <1>4, <1>5, <1>6, <2>1, <2>2, <2>3 DEF Counts, Up
<1>8. version' \in Versions \union {0}
  <2>1. Steps(version', local') <= Total + crashes
    <3>1. /\ Steps(version, local) + Cardinality(pending) + Cardinality(lost) <= Total + crashes
          /\ Steps(version, local) \in Nat /\ Cardinality(pending) \in Nat /\ Cardinality(lost) \in Nat
      BY <1>1, CountsTyped DEF Counts
    <3> QED  BY <1>4, <1>5, <1>6, <3>1
  <2>2. version' \in Nat /\ version' <= Steps(version', 1) /\ Steps(version', 1) <= Steps(version', local')
        /\ Steps(version', 1) \in Nat /\ Steps(version', local') \in Nat
    <3>1. version' \in Nat /\ 1 \in 1..Trigger  BY <1>4, <1>6
    <3> QED  BY <1>6, <3>1, StepsOf
  <2> QED  BY <1>4, <2>1, <2>2 DEF Versions
<1>9. Typed'
  <2>1. ckpt' \in 0..version' /\ pc' \in Pcs  BY <1>1, <1>2, <1>4, <1>6 DEF Pcs, Saving
  <2>2. Cardinality(pending') <= MaxInFlight
    <3>1. Cardinality(pending) <= MaxInFlight /\ Cardinality(pending) \in Nat
      BY CountsTyped DEF Typed
    <3> QED  BY <1>5, <3>1
  <2> QED  BY <1>1, <1>5, <1>6, <1>8, <2>1, <2>2 DEF Typed
<1>10. InReach'  BY <1>1, <1>2 DEF InReach, Lives
<1>11. Tracks'
  <2>1. Sound(tracked)' <=> Sound(tracked)  BY <1>1, <1>2 DEF Sound, Lives, Steps
  <2> QED  BY <1>1, <1>2, <2>1 DEF Tracks, Complete, Up
<1>12. Saves'
  BY <1>1, <1>2, <1>4, <1>6 DEF Saves, Saving, ActorSaved, AllSaved
<1>13. Listed'  BY <1>1, <1>2 DEF Listed, Newest, Up, AllSaved, ActorSaved
<1>14. Accounted'  BY <1>1, <1>2, <1>5 DEF Accounted, Up
<1> QED  BY <1>7, <1>9, <1>10, <1>11, <1>12, <1>13, <1>14

\* The last weights may get a version of their own, past what was counted.
LEMMA LastStepsKeeps == CheckpointInv /\ LastSteps => CheckpointInv'
<1> SUFFICES ASSUME CheckpointInv, LastSteps PROVE CheckpointInv'  OBVIOUS
<1> USE Sizes DEF CheckpointInv
<1>1. /\ pc = "train" /\ Up /\ ~final /\ final'
      /\ UNCHANGED <<keep, useCritic, dirs, tracker, tracked, ckpt, trained, kept, pos, supply, step,
                     done, pending, lost, lostBefore, crashes>>
  BY DEF LastSteps, disk, rollouter, losses, Up, Saves
<1>2. pc' \in {"over", "actor"} /\ (pc' = "actor" => version' /= ckpt)
  BY SaveChecked DEF LastSteps
<1>3. /\ version \in Nat /\ local \in 1..Trigger /\ ckpt \in 0..version /\ crashes \in 0..MaxCrashes
  BY CountsTyped DEF Typed
<1>4. version' \in {version, version + 1} /\ local' \in 1..Trigger
  <2>1. 1 \in 1..Trigger  OBVIOUS
  <2> QED  BY <1>3, <2>1 DEF LastSteps
<1>5. version' \in Versions \union {0}
  <2>1. /\ Steps(version, local) + Cardinality(pending) + Cardinality(lost) <= Total + crashes
        /\ Steps(version, local) \in Nat /\ Cardinality(pending) \in Nat /\ Cardinality(lost) \in Nat
        /\ Steps(version, 1) \in Nat
    BY <1>1, CountsTyped DEF Counts
  <2>2. version <= Steps(version, 1) /\ Steps(version, 1) <= Steps(version, local)
    BY <1>3, StepsOf
  <2> QED  BY <1>3, <1>4, <2>1, <2>2 DEF Versions
<1>6. Typed'
  <2>1. ckpt' \in 0..version' /\ pc' \in Pcs  BY <1>1, <1>2, <1>3, <1>4 DEF Pcs, Saving
  <2>2. final' \in BOOLEAN  BY <1>1
  <2> QED  BY <1>1, <1>4, <1>5, <2>1, <2>2 DEF Typed
<1>7. InReach'  BY <1>1, <1>2 DEF InReach, Lives
<1>8. Tracks'
  <2>1. Sound(tracked)' <=> Sound(tracked)  BY <1>1, <1>2 DEF Sound, Lives, Steps
  <2> QED  BY <1>1, <1>2, <2>1 DEF Tracks, Complete, Up
<1>9. Saves'
  BY <1>1, <1>2, <1>3, <1>4 DEF Saves, Saving, ActorSaved, AllSaved
<1>10. Listed'  BY <1>1, <1>2 DEF Listed, Newest, Up, AllSaved, ActorSaved
<1>11. Counts'  BY <1>1 DEF Counts, Up
<1>12. Accounted'  BY <1>1 DEF Accounted, Up
<1> QED  BY <1>6, <1>7, <1>8, <1>9, <1>10, <1>11, <1>12
\* The rotation takes checkpoints from the front of a model's list; the newest
\* is not among them unless only one may be kept.
LEMMA RotationKeeps ==
  ASSUME keep \in Nat, NEW saved \in Seq(Versions), InOrder(saved)
  PROVE  LET old  == Outdated(saved)
             rest == SubSeq(saved, Len(old) + 1, Len(saved))
         IN /\ rest \in Seq(Versions) /\ InOrder(rest)
            /\ rest /= <<>> => saved /= <<>> /\ rest[Len(rest)] = saved[Len(saved)]
            /\ keep /= 1 /\ saved /= <<>> => saved[Len(saved)] \notin Range(old)
<1> DEFINE old  == Outdated(saved)
           rest == SubSeq(saved, Len(old) + 1, Len(saved))
           n    == Len(saved)
           cut  == IF keep > 0 /\ n >= keep THEN n - keep + 1 ELSE 0
<1>1. n \in Nat /\ cut \in 0..n /\ (keep /= 1 /\ n > 0 => cut < n)
  OBVIOUS
<1>2. old \in Seq(Versions) /\ Len(old) = cut /\ \A i \in 1..cut : old[i] = saved[i]
  BY <1>1, Sizes DEF Outdated
<1>3. /\ rest \in Seq(Versions) /\ Len(rest) = n - cut
      /\ \A i \in 1..(n - cut) : rest[i] = saved[i + cut]
  <2>1. \A i \in (cut + 1)..n : saved[i] \in Versions  BY <1>1
  <2>2. cut + 1 \in Int /\ n \in Int /\ rest = SubSeq(saved, cut + 1, n)  BY <1>1, <1>2
  <2>3. /\ rest \in Seq(Versions) /\ Len(rest) = IF cut + 1 <= n THEN n - (cut + 1) + 1 ELSE 0
        /\ \A i \in 1..(n - (cut + 1) + 1) : rest[i] = saved[(cut + 1) + i - 1]
    BY ONLY <2>1, <2>2, SubSeqProperties, SMTT(60)
  <2> HIDE DEF rest, cut
  <2> QED  BY <1>1, <2>3
<1>4. \A i \in 1..n : saved[i] \in Nat
  <2>1. Versions \subseteq Nat  BY Sizes DEF Versions
  <2> QED  BY <2>1, ElementOfSeq
<1> HIDE DEF old, rest, cut
<1>5. InOrder(rest)
  BY <1>1, <1>3 DEF InOrder
<1>6. ASSUME rest /= <<>> PROVE saved /= <<>> /\ rest[Len(rest)] = saved[n]
  <2>1. n - cut \in 1..(n - cut) /\ n - cut + cut = n  BY <1>1, <1>3, <1>6
  <2> QED  BY <1>1, <1>3, <2>1
<1>7. ASSUME keep /= 1, saved /= <<>> PROVE saved[n] \notin Range(old)
  <2>1. n > 0 /\ cut < n  BY <1>1, <1>7
  <2>2. \A i \in 1..cut : saved[i] < saved[n]  BY <1>1, <2>1 DEF InOrder
  <2>3. DOMAIN old = 1..cut  BY <1>2
  <2> QED  BY <1>2, <1>4, <2>1, <2>2, <2>3 DEF Range
<1> QED  BY <1>3, <1>5, <1>6, <1>7 DEF old, rest
\* The shards of a model in the directory of a version.
Shard(v, m) == IF m = "actor" THEN dirs[v].actor ELSE dirs[v].critic

\* The steps of a save leave the counts of rollouter and trainer alone.
LEMMA SaveStep ==
  ASSUME CheckpointInv, pc \in Saving, pc' \in Saving,
         UNCHANGED <<version, local, trained, final, rollouter, crashes>>
  PROVE  Counts' /\ Accounted' /\ Lives' = Lives /\ \A v, l : Steps(v, l)' = Steps(v, l)
<1>1. Up /\ Up' /\ Lives' = Lives  BY DEF Saving, Up, Lives
<1>2. \A v, l : Steps(v, l)' = Steps(v, l)  BY DEF Steps
<1> QED  BY <1>1, <1>2 DEF CheckpointInv, Counts, Accounted, rollouter, losses

\* The first step of a model's save: what the rotation takes is not what the
\* tracker names, unless only one checkpoint is kept.
LEMMA ShardsBeginKeeps ==
  ASSUME CheckpointInv, NEW model \in Models, NEW writing, ShardsBegin(model, writing),
         <<model, writing>> \in {<<"actor", "actorWrites">>, <<"critic", "criticWrites">>}
  PROVE  CheckpointInv'
<1> USE Sizes DEF CheckpointInv
<1> DEFINE saved == kept[model]
           old   == Outdated(saved)
           rest  == SubSeq(saved, Len(old) + 1, Len(saved))
<1>1. /\ pc = model /\ pc' = writing /\ pc \in Saving /\ pc' \in Saving /\ Up /\ Up'
      /\ pc \notin AllSaved /\ pc' \notin AllSaved
      /\ pc \in ActorSaved <=> model = "critic"
      /\ pc' \in ActorSaved <=> model = "critic"
      /\ UNCHANGED <<keep, useCritic, tracker, tracked, version, local, ckpt, trained, final, pos,
                     supply, step, done, pending, lost, lostBefore, crashes>>
      /\ model = "critic" => useCritic
  BY DEF ShardsBegin, Models, Saving, ActorSaved, AllSaved, Up, rollouter, losses, Saves
<1>2. Counts' /\ Accounted' /\ Lives' = Lives /\ \A v, l : Steps(v, l)' = Steps(v, l)
  BY <1>1, SaveStep DEF rollouter, losses
<1>3. version \in Versions /\ version > ckpt /\ ckpt = tracked /\ version /= tracked
  BY <1>1, CountsTyped DEF Saves, Tracks, Typed
<1>4. saved \in Seq(Versions) /\ InOrder(saved) /\ (saved /= <<>> => saved[Len(saved)] = ckpt)
  BY <1>1 DEF Typed, Models, Listed, Newest
<1>5. /\ rest \in Seq(Versions) /\ InOrder(rest) /\ (rest /= <<>> => rest[Len(rest)] = ckpt)
      /\ keep /= 1 => ckpt \notin Range(old)
  <2>1. keep \in Nat  BY DEF Typed
  <2>2. /\ rest \in Seq(Versions) /\ InOrder(rest)
        /\ rest /= <<>> => saved /= <<>> /\ rest[Len(rest)] = saved[Len(saved)]
        /\ keep /= 1 /\ saved /= <<>> => saved[Len(saved)] \notin Range(old)
    BY <1>4, <2>1, RotationKeeps
  <2>3. saved = <<>> => Range(old) = {}
    <3>1. saved = <<>> => old = <<>>  BY <2>1 DEF Outdated
    <3>2. Range(<<>>) = {}  BY DEF Range
    <3> QED  BY <3>1, <3>2
  <2> HIDE DEF saved, old, rest
  <2> QED  BY <1>4, <2>2, <2>3
<1>6. kept' = [kept EXCEPT ![model] = rest]  BY DEF ShardsBegin
<1>7. /\ dirs' \in [Versions -> [actor : Shards, critic : Shards, data : Int]]
      /\ \A v \in Versions : dirs'[v].data = dirs[v].data
      /\ \A v \in Versions, m \in Models : m /= model => Shard(v, m)' = Shard(v, m)
      /\ \A v \in Versions :
           \/ Shard(v, model)'.state /= "whole"
           \/ v /= version /\ v \notin Range(old) /\ Shard(v, model)' = Shard(v, model)
      /\ \A v \in Versions \ ({version} \union Range(old)) : Shard(v, model)' = Shard(v, model)
  <2>1. dirs' = [v \in Versions |->
                   CASE v = version       -> [dirs[v] EXCEPT ![model] = [NoShards EXCEPT !.state = "partial"]]
                     [] v \in Range(old) -> [dirs[v] EXCEPT ![model] = NoShards]
                     [] OTHER             -> dirs[v]]
    BY DEF ShardsBegin
  <2>2. NoShards \in Shards /\ [NoShards EXCEPT !.state = "partial"] \in Shards
    BY DEF NoShards, Shards
  <2>3. NoShards.state /= "whole" /\ [NoShards EXCEPT !.state = "partial"].state /= "whole"
    BY DEF NoShards
  <2>4. dirs \in [Versions -> [actor : Shards, critic : Shards, data : Int]]  BY DEF Typed
  <2> HIDE DEF old
  <2>5. CASE model = "actor"
    BY <2>1, <2>2, <2>3, <2>4, <2>5 DEF Shard, Models
  <2>6. CASE model = "critic"
    BY <2>1, <2>2, <2>3, <2>4, <2>6 DEF Shard, Models
  <2> QED  BY <2>5, <2>6 DEF Models
<1> HIDE DEF old, rest, saved
<1>8. Typed'
  <2>1. kept' \in [actor : Seq(Versions), critic : Seq(Versions)]
    BY <1>5, <1>6 DEF Typed, Models
  <2>2. pc' \in Pcs  BY <1>1 DEF Pcs
  <2> QED  BY <1>1, <1>7, <2>1, <2>2 DEF Typed
<1>9. InReach'  BY <1>1, <1>2, <1>7 DEF InReach
<1>10. Tracks'
  <2>1. ASSUME tracked > 0 PROVE Sound(tracked)' /\ (keep /= 1 => Complete(tracked)')
    <3>1. tracked \in Versions /\ tracked /= version /\ tracked = ckpt  BY <1>3, <2>1 DEF Typed
    <3>2. Sound(tracked) /\ (keep /= 1 => Complete(tracked))  BY <1>1, <2>1 DEF Tracks, Up
    <3>3. \/ dirs'[tracked].actor.state /= "whole"
          \/ dirs'[tracked].actor = dirs[tracked].actor
      BY <1>7, <3>1 DEF Shard, Models
    <3>4. Sound(tracked)'  BY <1>1, <1>2, <1>7, <3>1, <3>2, <3>3 DEF Sound
    <3>5. ASSUME keep /= 1 PROVE \A m \in Models : Shard(tracked, m)' = Shard(tracked, m)
      <4>1. tracked \in Versions \ ({version} \union Range(old))  BY <1>5, <3>1, <3>5
      <4>2. Shard(tracked, model)' = Shard(tracked, model)  BY <1>1, <1>7, <4>1 DEF Shard
      <4>3. \A m \in Models : m /= model => Shard(tracked, m)' = Shard(tracked, m)
        BY <1>1, <1>7, <3>1 DEF Shard
      <4> QED  BY <4>2, <4>3
    <3>6. keep /= 1 => Complete(tracked)'  BY <1>1, <3>2, <3>5 DEF Complete, Shard, Models
    <3> QED  BY <3>4, <3>6
  <2> QED  BY <1>1, <2>1 DEF Tracks, AllSaved, Up
<1>11. Saves'
  <2>1. model = "critic" => dirs'[version].actor = dirs[version].actor
    BY <1>3, <1>7 DEF Shard, Models
  <2> QED  BY <1>1, <2>1 DEF Saves, AllSaved, Saving
<1>12. Listed'
  <2>1. \A m \in Models : kept'[m] = IF m = model THEN rest ELSE kept[m]
    BY <1>6 DEF Typed, Models
  <2>2. \A m \in Models : Newest(m)' = Newest(m)  BY <1>1 DEF Newest
  <2>3. Newest(model) = ckpt  BY <1>1 DEF Newest, Models
  <2> QED  BY <1>1, <1>5, <2>1, <2>2, <2>3 DEF Listed, Up
<1> QED  BY <1>2, <1>8, <1>9, <1>10, <1>11, <1>12
\* The last step of a model's save: its shards are whole and hold what was
\* trained, which no step of the save changes.
LEMMA ShardsEndKeeps ==
  ASSUME CheckpointInv, NEW model \in Models, NEW writing, NEW next,
         ShardsEnd(model, writing, next),
         \/ /\ model = "actor" /\ writing = "actorWrites"
            /\ next = IF useCritic THEN "critic" ELSE "data"
         \/ model = "critic" /\ writing = "criticWrites" /\ next = "data"
  PROVE  CheckpointInv'
<1> USE Sizes DEF CheckpointInv
<1> DEFINE saved == kept[model]
           whole == [state |-> "whole", of |-> trained]
<1>1. /\ pc = writing /\ pc' = next /\ pc \in Saving /\ pc' \in Saving /\ Up /\ Up'
      /\ pc \notin AllSaved /\ pc' \in ActorSaved /\ pc' \notin {"open", "write"}
      /\ pc \in ActorSaved <=> model = "critic"
      /\ pc' \in AllSaved <=> (model = "critic" \/ ~useCritic)
      /\ UNCHANGED <<keep, useCritic, tracker, tracked, version, local, ckpt, trained, final, pos,
                     supply, step, done, pending, lost, lostBefore, crashes>>
      /\ (model = "critic" \/ next = "critic") => useCritic
  BY DEF ShardsEnd, Models, Saving, ActorSaved, AllSaved, Up, rollouter, losses, Saves
<1>2. Counts' /\ Accounted' /\ Lives' = Lives /\ \A v, l : Steps(v, l)' = Steps(v, l)
  BY <1>1, SaveStep DEF rollouter, losses
<1>3. version \in Versions /\ version > ckpt /\ ckpt = tracked /\ version /= tracked
  BY <1>1, CountsTyped DEF Saves, Tracks, Typed
<1>4. saved \in Seq(Versions) /\ InOrder(saved) /\ (saved /= <<>> => saved[Len(saved)] = ckpt)
  BY <1>1 DEF Typed, Models, Listed, Newest
<1>5. kept' = [kept EXCEPT ![model] = Append(saved, version)]  BY DEF ShardsEnd
<1>6. /\ Append(saved, version) \in Seq(Versions) /\ InOrder(Append(saved, version))
      /\ Append(saved, version)[Len(Append(saved, version))] = version
  <2>1. \A i \in 1..Len(saved) : saved[i] \in Nat /\ saved[i] <= ckpt
    <3>1. Versions \subseteq Nat  BY DEF Versions
    <3>2. \A i \in 1..Len(saved) : saved[i] \in Nat  BY <1>4, <3>1, ElementOfSeq
    <3>3. Len(saved) \in Nat /\ (Len(saved) > 0 => saved /= <<>>)  BY <1>4, LenProperties
    <3>4. ASSUME NEW i \in 1..Len(saved) PROVE saved[i] <= ckpt
      <4>1. saved[Len(saved)] = ckpt /\ Len(saved) \in 1..Len(saved)  BY <1>4, <3>3
      <4>2. i < Len(saved) => saved[i] < saved[Len(saved)]  BY <1>4, <4>1 DEF InOrder
      <4> QED  BY <3>2, <3>3, <4>1, <4>2
    <3> QED  BY <3>2, <3>4
  <2>2. /\ Len(Append(saved, version)) = Len(saved) + 1 /\ Len(saved) \in Nat
        /\ \A i \in 1..Len(saved) : Append(saved, version)[i] = saved[i]
        /\ Append(saved, version)[Len(saved) + 1] = version
        /\ Append(saved, version) \in Seq(Versions)
    BY <1>3, <1>4, AppendProperties, LenProperties
  <2>3. \A i \in 1..Len(saved) : saved[i] < version
    BY <1>3, <2>1, CountsTyped, SMTT(60) DEF Typed
  <2> HIDE DEF saved
  <2>4. InOrder(Append(saved, version))  BY <1>4, <2>2, <2>3 DEF InOrder
  <2> QED  BY <2>2, <2>4
<1>7. /\ dirs' \in [Versions -> [actor : Shards, critic : Shards, data : Int]]
      /\ \A v \in Versions : dirs'[v].data = dirs[v].data
      /\ \A v \in Versions, m \in Models :
           Shard(v, m)' = IF v = version /\ m = model THEN whole ELSE Shard(v, m)
  <2>1. dirs' = [dirs EXCEPT ![version][model] = whole]  BY DEF ShardsEnd
  <2>2. whole \in Shards
    <3>1. pos <= DataSize * Epochs * (MaxCrashes + 1) /\ pos \in Nat
      <4>1. /\ pos \in Nat /\ supply \in Nat /\ crashes \in 0..MaxCrashes
            /\ pos <= supply /\ supply <= Drawn(crashes + 1)
        BY DEF Typed, InReach
      <4>2. Drawn(crashes + 1) <= Drawn(MaxCrashes + 1) /\ Drawn(crashes + 1) \in Nat
            /\ Drawn(MaxCrashes + 1) \in Nat
        BY <4>1, Grows DEF Drawn
      <4>3. Drawn(MaxCrashes + 1) = DataSize * Epochs * (MaxCrashes + 1)  BY DEF Drawn, OneLife
      <4> QED  BY <4>1, <4>2, <4>3
    <3>2. trained \subseteq 1..(DataSize * Epochs * (MaxCrashes + 1))  BY <3>1 DEF Typed
    <3> QED  BY <3>2 DEF Shards
  <2>3. dirs \in [Versions -> [actor : Shards, critic : Shards, data : Int]]  BY DEF Typed
  <2> HIDE DEF whole
  <2>4. CASE model = "actor"
    BY <1>3, <2>1, <2>2, <2>3, <2>4 DEF Shard, Models
  <2>5. CASE model = "critic"
    BY <1>3, <2>1, <2>2, <2>3, <2>5 DEF Shard, Models
  <2> QED  BY <2>4, <2>5 DEF Models
<1> HIDE DEF saved
<1>8. Typed'
  <2>1. kept' \in [actor : Seq(Versions), critic : Seq(Versions)]
    BY <1>5, <1>6 DEF Typed, Models
  <2>2. pc' \in Pcs  BY <1>1 DEF Pcs
  <2> QED  BY <1>1, <1>7, <2>1, <2>2 DEF Typed
<1>9. InReach'  BY <1>1, <1>2, <1>7 DEF InReach
<1>10. Tracks'
  <2>1. ASSUME tracked > 0 PROVE Sound(tracked)' /\ (keep /= 1 => Complete(tracked)')
    <3>1. tracked \in Versions /\ tracked /= version  BY <1>3, <2>1 DEF Typed
    <3>2. Sound(tracked) /\ (keep /= 1 => Complete(tracked))  BY <1>1, <2>1 DEF Tracks, Up
    <3>3. dirs'[tracked].actor = dirs[tracked].actor /\ dirs'[tracked].critic = dirs[tracked].critic
      BY <1>7, <3>1 DEF Shard, Models
    <3> QED  BY <1>1, <1>2, <1>7, <3>1, <3>2, <3>3 DEF Sound, Complete
  <2> QED  BY <1>1, <2>1 DEF Tracks, AllSaved, Up
<1>11. Saves'
  <2>1. dirs'[version].actor = whole
    <3>1. CASE model = "actor"
      BY <1>3, <1>7, <3>1 DEF Shard
    <3>2. CASE model = "critic"
      <4>1. dirs[version].actor = whole  BY <1>1, <3>2 DEF Saves
      <4> QED  BY <1>3, <1>7, <3>2, <4>1 DEF Shard, Models
    <3> QED  BY <3>1, <3>2 DEF Models
  <2>2. model = "critic" => dirs'[version].critic = whole
    BY <1>3, <1>7 DEF Shard
  <2>3. pc' \in AllSaved => Complete(version)'
    BY <1>1, <2>1, <2>2 DEF Complete
  <2> QED  BY <1>1, <1>3, <2>1, <2>3 DEF Saves, Saving
<1>12. Listed'
  <2>1. \A m \in Models : kept'[m] = IF m = model THEN Append(saved, version) ELSE kept[m]
    BY <1>5 DEF Typed, Models
  <2>2. Newest(model)' = version  BY <1>1 DEF Newest, Models
  <2>3. ASSUME NEW m \in Models, m /= model, kept[m] /= <<>> PROVE Newest(m)' = Newest(m)
    BY <1>1, <2>3 DEF Newest, Models, Listed
  <2> QED  BY <1>1, <1>6, <2>1, <2>2, <2>3 DEF Listed, Up
<1> QED  BY <1>2, <1>8, <1>9, <1>10, <1>11, <1>12
\* The position goes beside the weights when they are written: what is between
\* them was on its way, or was lost before.
LEMMA SaveDataKeeps == CheckpointInv /\ SaveData => CheckpointInv'
<1> SUFFICES ASSUME CheckpointInv, SaveData PROVE CheckpointInv'  OBVIOUS
<1> USE Sizes DEF CheckpointInv
<1>1. /\ pc = "data" /\ pc' = "open" /\ pc \in Saving /\ pc' \in Saving /\ Up /\ Up'
      /\ dirs' = [dirs EXCEPT ![version].data = pos]
      /\ UNCHANGED <<keep, useCritic, tracker, tracked, version, local, ckpt, trained, kept, final, pos,
                     supply, step, done, pending, lost, lostBefore, crashes>>
  BY DEF SaveData, SavedPosition, Saving, Up, rollouter, losses
<1>2. Counts' /\ Accounted' /\ Lives' = Lives /\ Lives = crashes + 1
      /\ \A v, l : Steps(v, l)' = Steps(v, l)
  BY <1>1, SaveStep DEF rollouter, losses, Lives
<1>3. version \in Versions /\ version > ckpt /\ ckpt = tracked /\ version /= tracked
      /\ pos \in Nat /\ crashes \in 0..MaxCrashes
  <2>1. pos \in Nat /\ crashes \in 0..MaxCrashes  BY DEF Typed
  <2>2. version > ckpt /\ ckpt = tracked  BY <1>1 DEF Saves, Tracks
  <2>3. ckpt \in 0..version /\ version \in Versions \union {0} /\ version \in Nat
    BY CountsTyped DEF Typed
  <2> QED  BY <2>1, <2>2, <2>3
<1>4. /\ dirs' \in [Versions -> [actor : Shards, critic : Shards, data : Int]]
      /\ \A v \in Versions : /\ dirs'[v].actor = dirs[v].actor /\ dirs'[v].critic = dirs[v].critic
                             /\ dirs'[v].data = IF v = version THEN pos ELSE dirs[v].data
  <2>1. dirs \in [Versions -> [actor : Shards, critic : Shards, data : Int]]  BY DEF Typed
  <2>2. dirs' = [dirs EXCEPT ![version] = [@ EXCEPT !.data = pos]]  BY <1>1
  <2> QED  BY <1>3, <2>1, <2>2
<1>5. Typed'
  <2>1. pc' \in Pcs  BY <1>1 DEF Pcs
  <2> QED  BY <1>1, <1>4, <2>1 DEF Typed
<1>6. InReach'
  <2>1. pos <= supply /\ supply <= Drawn(Lives) /\ supply \in Nat /\ Drawn(Lives) \in Nat
    BY <1>2, <1>3, OneMore DEF InReach, Typed, Drawn
  <2> QED  BY <1>1, <1>2, <1>3, <1>4, <2>1 DEF InReach
<1>7. Tracks'
  <2>1. ASSUME tracked > 0 PROVE Sound(tracked)' /\ (keep /= 1 => Complete(tracked)')
    <3>1. tracked \in Versions /\ tracked /= version  BY <1>3, <2>1 DEF Typed
    <3>2. Sound(tracked) /\ (keep /= 1 => Complete(tracked))  BY <1>1, <2>1 DEF Tracks, Up
    <3> QED  BY <1>1, <1>2, <1>4, <3>1, <3>2 DEF Sound, Complete
  <2> QED  BY <1>1, <2>1 DEF Tracks, Up
<1>8. ~final => Sound(version)'
  <2> SUFFICES ASSUME ~final PROVE Sound(version)'  OBVIOUS
  <2>1. dirs'[version].actor.of = trained /\ dirs'[version].data = pos
    <3>1. dirs[version].actor = [state |-> "whole", of |-> trained]
      BY <1>1 DEF Saves, ActorSaved
    <3> QED  BY <1>3, <1>4, <3>1
  <2>2. /\ trained \in SUBSET (1..pos) /\ pending \in SUBSET (1..pos)
        /\ Cardinality(pending) <= MaxInFlight
        /\ Cardinality((1..pos) \ (trained \union pending \union lost \union lostBefore))
             <= crashes * MaxInFlight
        /\ local \in 1..Trigger
    BY <1>1 DEF Typed, Accounted
  <2>3. Cardinality((1..pos) \ (trained \union lost \union lostBefore)) <= Lives * MaxInFlight
    <3> DEFINE left   == (1..pos) \ (trained \union lost \union lostBefore)
               before == (1..pos) \ (trained \union pending \union lost \union lostBefore)
    <3>1. before \in SUBSET (1..pos) /\ left \in SUBSET (before \union pending)
          /\ before \union pending \in SUBSET (1..pos) /\ before \intersect pending = {}
      BY <2>2
    <3> HIDE DEF left, before
    <3>2. Cardinality(before \union pending) = Cardinality(before) + Cardinality(pending)
      <4>1. /\ pos \in Nat /\ before \in SUBSET (1..pos) /\ pending \in SUBSET (1..pos)
            /\ before \intersect pending = {}
        BY <1>3, <2>2, <3>1
      <4> QED  BY ONLY <4>1, Together
    <3>3. Cardinality(left) <= Cardinality(before \union pending)
          /\ Cardinality(before) \in Nat /\ Cardinality(pending) \in Nat /\ Cardinality(left) \in Nat
      BY <1>3, <2>2, <3>1, Samples
    <3>4. Lives * MaxInFlight = crashes * MaxInFlight + MaxInFlight /\ crashes * MaxInFlight \in Nat
      BY <1>2, <1>3, OneMore
    <3>5. Cardinality(before) <= crashes * MaxInFlight  BY <2>2 DEF before
    <3>6. Cardinality(left) <= Lives * MaxInFlight  BY <2>2, <3>2, <3>3, <3>4, <3>5
    <3> QED  BY <3>6 DEF left
  <2>4. Cardinality(trained) - Steps(version, 1) \in 0..(Lives * ((Trigger - 1) * Required))
    <3> DEFINE most == (Trigger - 1) * Required
    <3>1. Cardinality(trained) - Steps(version, local) \in 0..(crashes * most)
      BY <1>1 DEF Counts
    <3>2. Steps(version, 1) <= Steps(version, local) /\ Steps(version, local) <= Steps(version, 1) + most
      BY <2>2, CountsTyped, StepsOf
    <3>3. most \in Nat /\ Lives * most = crashes * most + most /\ crashes * most \in Nat
      BY <1>2, <1>3, OneMore
    <3> HIDE DEF most
    <3>4. Cardinality(trained) - Steps(version, 1) \in 0..(Lives * most)
      BY <3>1, <3>2, <3>3, CountsTyped
    <3> QED  BY <3>4 DEF most
  <2>5. Steps(version, 1) < Total + Lives
    <3>1. Steps(version, local) + Cardinality(pending) + Cardinality(lost) <= Total + crashes
      BY <1>1 DEF Counts
    <3>2. Steps(version, 1) <= Steps(version, local)
      BY <2>2, CountsTyped, StepsOf
    <3> QED  BY <1>2, <1>3, <3>1, <3>2, CountsTyped
  <2> QED  BY <1>1, <1>2, <1>3, <2>1, <2>2, <2>3, <2>4, <2>5 DEF Sound
<1>9. Saves'
  <2>1. Complete(version)'  BY <1>1, <1>3, <1>4 DEF Saves, Complete, AllSaved
  <2>2. dirs'[version].actor = dirs[version].actor  BY <1>3, <1>4
  <2> QED  BY <1>1, <1>8, <2>1, <2>2 DEF Saves, Saving, ActorSaved, AllSaved
<1>10. Listed'
  <2>1. \A m \in Models : Newest(m)' = Newest(m)  BY <1>1 DEF Newest, AllSaved
  <2> QED  BY <1>1, <2>1 DEF Listed, Up
<1> QED  BY <1>2, <1>5, <1>6, <1>7, <1>9, <1>10

\* The tracker file names nothing while it is open.
LEMMA TrackerOpenedKeeps == CheckpointInv /\ TrackerOpened => CheckpointInv'
<1> SUFFICES ASSUME CheckpointInv, TrackerOpened PROVE CheckpointInv'  OBVIOUS
<1> USE Sizes DEF CheckpointInv
<1>1. /\ pc = "open" /\ pc' = "write" /\ pc \in Saving /\ pc' \in Saving /\ Up /\ Up'
      /\ tracker' = Unreadable
      /\ UNCHANGED <<keep, useCritic, dirs, tracked, version, local, ckpt, trained, kept, final, pos,
                     supply, step, done, pending, lost, lostBefore, crashes>>
  BY DEF TrackerOpened, Saving, Up, rollouter, losses
<1>2. Counts' /\ Accounted' /\ Lives' = Lives /\ \A v, l : Steps(v, l)' = Steps(v, l)
  BY <1>1, SaveStep DEF rollouter, losses
<1>3. Typed'
  <2>1. pc' \in Pcs  BY <1>1 DEF Pcs
  <2> QED  BY <1>1, <2>1 DEF Typed
<1>4. InReach'  BY <1>1, <1>2 DEF InReach
<1>5. Tracks'  BY <1>1, <1>2 DEF Tracks, Up, Sound, Complete
<1>6. Saves'
  BY <1>1, <1>2 DEF Saves, Saving, ActorSaved, AllSaved, Sound, Complete
<1>7. Listed'  BY <1>1 DEF Listed, Newest, AllSaved, Up
<1> QED  BY <1>2, <1>3, <1>4, <1>5, <1>6, <1>7

\* The tracker names the version that was saved, and it is the newest now.
LEMMA TrackerWrittenKeeps == CheckpointInv /\ TrackerWritten => CheckpointInv'
<1> SUFFICES ASSUME CheckpointInv, TrackerWritten PROVE CheckpointInv'  OBVIOUS
<1> USE Sizes DEF CheckpointInv
<1>1. /\ pc = "write" /\ Up /\ pc' \in {"train", "over"} /\ (pc' = "train" <=> ~final)
      /\ tracker' = version /\ tracked' = version /\ ckpt' = version
      /\ UNCHANGED <<keep, useCritic, dirs, version, local, trained, kept, final, pos, supply, step,
                     done, pending, lost, lostBefore, crashes>>
  BY DEF TrackerWritten, Up, rollouter, losses
<1>2. Lives' = Lives /\ \A v, l : Steps(v, l)' = Steps(v, l)  BY <1>1 DEF Lives, Steps
<1>3. version \in Versions  BY <1>1, CountsTyped DEF Saves, Saving, Typed
<1>4. Typed'
  <2>1. pc' \in Pcs /\ ckpt' \in 0..version  BY <1>1, CountsTyped DEF Pcs
  <2> QED  BY <1>1, <1>3, <2>1 DEF Typed
<1>5. InReach'  BY <1>1, <1>2 DEF InReach
<1>6. Tracks'
  <2>1. Complete(version)' /\ (~final => Sound(version)')
    BY <1>1, <1>2 DEF Saves, AllSaved, Sound, Complete
  <2> QED  BY <1>1, <2>1 DEF Tracks, Up, Complete, Sound
<1>7. Saves'  BY <1>1 DEF Saves, Saving, ActorSaved, AllSaved
<1>8. Listed'
  BY <1>1 DEF Listed, Newest, ActorSaved, AllSaved, Up
<1>9. Counts'  BY <1>1, <1>2 DEF Counts, Up
<1>10. Accounted'  BY <1>1 DEF Accounted, Up
<1> QED  BY <1>4, <1>5, <1>6, <1>7, <1>8, <1>9, <1>10
\* A job that dies leaves the disk as it is, and a life to account for.
LEMMA CrashKeeps == CheckpointInv /\ Crash => CheckpointInv'
<1> SUFFICES ASSUME CheckpointInv, Crash PROVE CheckpointInv'  OBVIOUS
<1> USE Sizes DEF CheckpointInv
<1>1. /\ Up /\ pc' = "down" /\ ~Up' /\ crashes < MaxCrashes /\ crashes' = crashes + 1
      /\ pending' = {} /\ trained' = {} /\ kept' = [actor |-> <<>>, critic |-> <<>>]
      /\ UNCHANGED <<keep, useCritic, dirs, tracker, tracked, version, local, ckpt, final, pos,
                     supply, step, done, lost, lostBefore>>
  BY DEF Crash, disk, losses, Up
<1>2. crashes \in 0..MaxCrashes /\ crashes' \in 0..MaxCrashes
  BY <1>1 DEF Typed
<1>3. Lives' = Lives /\ \A v, l : Steps(v, l)' = Steps(v, l)
  BY <1>1 DEF Lives, Steps, Up
<1>4. Typed'
  <2>1. Cardinality(pending') <= MaxInFlight  BY <1>1, FS_EmptySet
  <2>2. kept' \in [actor : Seq(Versions), critic : Seq(Versions)]  BY <1>1
  <2>3. pc' \in Pcs /\ pending' \subseteq 1..pos /\ trained' \subseteq 1..pos  BY <1>1 DEF Pcs
  <2> QED  BY <1>1, <1>2, <2>1, <2>2, <2>3 DEF Typed
<1>5. InReach'
  <2>1. Drawn(crashes + 1) <= Drawn(crashes + 2) /\ Drawn(crashes + 1) \in Nat
        /\ Drawn(crashes + 2) \in Nat
    BY <1>2, Grows DEF Drawn
  <2>2. supply <= Drawn(crashes' + 1)
    <3>1. supply \in Nat /\ supply <= Drawn(crashes + 1)  BY DEF Typed, InReach
    <3>2. crashes' + 1 = crashes + 2  BY <1>1, <1>2
    <3> QED  BY <2>1, <3>1, <3>2
  <2> QED  BY <1>1, <1>3, <2>2 DEF InReach
<1>6. Tracks'
  <2>1. tracker \in {tracked, Unreadable}  BY <1>1 DEF Tracks
  <2>2. ASSUME tracked > 0 PROVE Sound(tracked)' /\ (keep /= 1 => Complete(tracked)')
    <3>1. Sound(tracked) /\ (keep /= 1 => Complete(tracked))  BY <1>1, <2>2 DEF Tracks, Up
    <3> QED  BY <1>1, <1>3, <3>1 DEF Sound, Complete
  <2> QED  BY <1>1, <2>1, <2>2 DEF Tracks, Up
<1>7. Saves'  BY <1>1 DEF Saves, Saving, ActorSaved, AllSaved
<1>8. Listed'  BY <1>1 DEF Listed, Models
<1>9. Counts' /\ Accounted'  BY <1>1 DEF Counts, Accounted
<1> QED  BY <1>4, <1>5, <1>6, <1>7, <1>8, <1>9
\* A process that resumes from weights and a position that fit each other and
\* the version that the tracker has named is in order from its first step on.
LEMMA ResumeKeeps ==
  ASSUME CheckpointInv, pc = "down", NEW v, NEW weights, NEW p, Resume(v, weights, p),
         UNCHANGED <<keep, useCritic, disk, kept, pending, crashes>>,
         v = tracked, tracker = tracked, p \in 0..Drawn(crashes), weights \in SUBSET (1..p),
         Cardinality((1..p) \ (weights \union lost \union lostBefore)) <= crashes * MaxInFlight,
         tracked > 0 => dirs[tracked].data = p,
         Cardinality(weights) - Steps(v, 1) \in 0..(crashes * ((Trigger - 1) * Required)),
         Steps(v, 1) < Total + crashes,
         tracked > 0 => Sound(tracked) /\ (keep /= 1 => Complete(tracked))
  PROVE  CheckpointInv'
<1> USE Sizes DEF CheckpointInv
<1>1. /\ pc' = "train" /\ version' = v /\ ckpt' = v /\ local' = 1 /\ trained' = weights /\ ~final'
      /\ pos' = p /\ supply' = EndOfData(p) /\ step' = v * Required * Trigger + 1 /\ ~done'
      /\ final' = FALSE /\ done' = FALSE
      /\ lost' = {} /\ lostBefore' = (lostBefore \union lost) \intersect (1..p)
      /\ Up' /\ Lives = crashes /\ Lives' = crashes + 1
      /\ pending = {} /\ kept["actor"] = <<>> /\ kept["critic"] = <<>>
      /\ UNCHANGED <<keep, useCritic, dirs, tracker, tracked, kept, pending, crashes>>
  BY DEF Resume, LoadedVersion, LoadedStep, Up, Lives, Listed, Models, disk
<1>2. v \in Versions \union {0} /\ v \in Nat /\ crashes \in 0..MaxCrashes /\ 1 \in 1..Trigger
  <2>1. tracked \in Versions \union {0} /\ crashes \in 0..MaxCrashes  BY DEF Typed
  <2>2. Versions \subseteq Nat  BY DEF Versions
  <2>3. v \in Versions \union {0} /\ v \in Nat  BY <2>1, <2>2
  <2>4. 1 \in 1..Trigger  OBVIOUS
  <2> QED  BY <2>1, <2>3, <2>4
<1>3. Drawn(crashes) \in Nat /\ Drawn(crashes + 1) \in Nat /\ Drawn(crashes) <= Drawn(crashes + 1)
  BY <1>2, Grows DEF Drawn
<1>4. p \in Nat /\ EndOfData(p) \in Nat /\ p <= EndOfData(p) /\ EndOfData(p) <= Drawn(crashes + 1)
  BY <1>2, <1>3, EndReached
<1>5. Steps(v, 1) = v * Required * Trigger /\ Steps(v, 1) \in Nat  BY <1>2, StepsOf
<1>6. Typed'
  <2>1. Cardinality(pending) <= MaxInFlight /\ pending \subseteq 1..p
    BY <1>1, FS_EmptySet
  <2>2. pc' \in Pcs /\ ckpt' \in 0..version' /\ local' \in 1..Trigger  BY <1>1, <1>2 DEF Pcs
  <2>3. step' \in Nat \ {0}  BY <1>1, <1>5
  <2>4. final' \in BOOLEAN /\ done' \in BOOLEAN /\ lost' \subseteq 1..p /\ lostBefore' \subseteq 1..p
    BY <1>1
  <2> QED  BY <1>1, <1>2, <1>4, <2>1, <2>2, <2>3, <2>4 DEF Typed
<1>7. InReach'
  <2>1. \A u \in Versions : dirs[u].data \in -1..Drawn(crashes + 1)
    <3>1. \A u \in Versions : dirs[u].data \in -1..Drawn(crashes)  BY <1>1 DEF InReach
    <3> QED  BY <1>3, <3>1
  <2> QED  BY <1>1, <1>4, <2>1 DEF InReach
<1>8. ASSUME NEW S PROVE (1..p) \ (S \union lost' \union lostBefore')
                            = (1..p) \ (S \union lost \union lostBefore)
  BY <1>1
<1>9. Tracks'
  <2>1. ASSUME tracked > 0 PROVE Sound(tracked)' /\ (keep /= 1 => Complete(tracked)')
    <3>1. Sound(tracked) /\ (keep /= 1 => Complete(tracked))  BY <2>1
    <3>2. crashes * MaxInFlight <= (crashes + 1) * MaxInFlight
          /\ crashes * MaxInFlight \in Nat /\ (crashes + 1) * MaxInFlight \in Nat
      BY <1>2, Grows
    <3>3. 0..(crashes * ((Trigger - 1) * Required)) \subseteq 0..((crashes + 1) * ((Trigger - 1) * Required))
      <4>1. /\ crashes * ((Trigger - 1) * Required) <= (crashes + 1) * ((Trigger - 1) * Required)
            /\ crashes * ((Trigger - 1) * Required) \in Nat
            /\ (crashes + 1) * ((Trigger - 1) * Required) \in Nat
        BY <1>2, Grows
      <4> QED  BY <4>1
    <3>4. Steps(tracked, 1)' = Steps(tracked, 1)  BY <1>1 DEF Steps
    <3>5. Steps(tracked, 1) < Total + (crashes + 1)  BY <1>2, <1>5
    <3>6. dirs[tracked].data = p /\ dirs'[tracked] = dirs[tracked]  BY <1>1, <2>1
    <3>7. dirs[tracked].actor.state = "whole" =>
            Cardinality((1..p) \ (dirs[tracked].actor.of \union lost' \union lostBefore'))
              <= (crashes + 1) * MaxInFlight
      <4> SUFFICES ASSUME dirs[tracked].actor.state = "whole"
                   PROVE  Cardinality((1..p) \ (dirs[tracked].actor.of \union lost' \union lostBefore'))
                            <= (crashes + 1) * MaxInFlight
        OBVIOUS
      <4> DEFINE left == (1..p) \ (dirs[tracked].actor.of \union lost \union lostBefore)
      <4>1. Cardinality(left) <= crashes * MaxInFlight  BY <1>1, <3>1, <3>6 DEF Sound
      <4>2. Cardinality(left) \in Nat
        <5>1. left \in SUBSET (1..p)  OBVIOUS
        <5> HIDE DEF left
        <5> QED  BY <1>4, <5>1, Samples
      <4>3. (1..p) \ (dirs[tracked].actor.of \union lost' \union lostBefore') = left  BY <1>8
      <4> HIDE DEF left
      <4>4. Cardinality(left) <= (crashes + 1) * MaxInFlight  BY ONLY <3>2, <4>1, <4>2
      <4> QED  BY <4>3, <4>4, Zenon
    <3> QED  BY <1>1, <3>1, <3>3, <3>4, <3>5, <3>6, <3>7 DEF Sound, Complete
  <2> QED  BY <1>1, <2>1 DEF Tracks, Up
<1>10. Saves'  BY <1>1 DEF Saves, Saving, ActorSaved, AllSaved
<1>11. Listed'
  <2>1. InOrder(<<>>)  BY DEF InOrder
  <2> QED  BY <1>1, <2>1 DEF Listed, Models
<1>12. Counts'
  <2>1. Steps(version, local)' = Steps(v, 1)  BY <1>1 DEF Steps
  <2>2. Cardinality(pending') = 0 /\ Cardinality(lost') = 0  BY <1>1, FS_EmptySet
  <2> QED  BY <1>1, <1>2, <1>5, <2>1, <2>2, SMTT(60) DEF Counts
<1>13. Accounted'
  <2>1. (1..p) \ (weights \union {} \union lost' \union lostBefore')
          = (1..p) \ (weights \union lost \union lostBefore)
    BY <1>8, weights \union {} = weights
  <2> QED  BY <1>1, <2>1 DEF Accounted
<1> QED  BY <1>6, <1>7, <1>9, <1>10, <1>11, <1>12, <1>13

\* A job that cannot be started stays as it is, and the tracker says why.
LEMMA FailedKeeps ==
  ASSUME CheckpointInv, pc = "down", pc' = "failed",
         UNCHANGED <<version, local, ckpt, trained, final, pos, supply, step, done, losses>>,
         UNCHANGED <<keep, useCritic, disk, kept, pending, crashes>>,
         keep = 1 \/ tracker = Unreadable
  PROVE  CheckpointInv'
<1> USE Sizes DEF CheckpointInv
<1>1. ~Up' /\ Lives = crashes /\ Lives' = crashes + 1 /\ crashes \in 0..MaxCrashes
  BY DEF Up, Lives, Typed
<1>2. Typed'
  <2>1. pc' \in Pcs  BY DEF Pcs
  <2> QED  BY <2>1 DEF Typed, disk, losses
<1>3. InReach'
  <2>1. Drawn(crashes) \in Nat /\ Drawn(crashes + 1) \in Nat /\ Drawn(crashes) <= Drawn(crashes + 1)
    BY <1>1, Grows DEF Drawn
  <2>2. \A u \in Versions : dirs[u].data \in -1..Drawn(crashes)  BY <1>1 DEF InReach
  <2>3. \A u \in Versions : dirs[u].data \in -1..Drawn(crashes + 1)  BY <2>1, <2>2
  <2> QED  BY <1>1, <2>3 DEF InReach, disk
<1>4. Tracks'  BY <1>1 DEF Tracks, disk
<1>5. Saves'  BY DEF Saves, Saving, ActorSaved, AllSaved
<1>6. Listed' /\ Counts' /\ Accounted'  BY <1>1 DEF Listed, Counts, Accounted
<1> QED  BY <1>2, <1>3, <1>4, <1>5, <1>6

\* A job that starts again does so from what the tracker names, if it names
\* anything, or from nothing.
LEMMA RestartKeeps == CheckpointInv /\ Restart => CheckpointInv'
<1> SUFFICES ASSUME CheckpointInv, Restart PROVE CheckpointInv'  OBVIOUS
<1> USE Sizes DEF CheckpointInv
<1>1. pc = "down" /\ Lives = crashes /\ UNCHANGED <<keep, useCritic, disk, kept, pending, crashes>>
  BY DEF Restart, Lives
<1>2. /\ crashes \in 0..MaxCrashes /\ tracker \in {tracked, Unreadable}
      /\ tracked \in Versions \union {0} /\ Versions \subseteq Nat \ {0}
      /\ tracked > 0 => Sound(tracked) /\ (keep /= 1 => Complete(tracked))
  BY <1>1 DEF Typed, Tracks, Versions
<1>3. CASE tracker = 0
  <2>1. NoCheckpoint /\ tracked = 0  BY <1>2, <1>3 DEF NoCheckpoint, Absent, Unreadable
  <2>2. Resume(0, {}, 0)  BY <2>1 DEF Restart
  <2>3. 0 \in 0..Drawn(crashes)  BY <1>2, OneMore DEF Drawn
  <2>4. Cardinality((1..0) \ ({} \union lost \union lostBefore)) <= crashes * MaxInFlight
    <3>1. (1..0) \ ({} \union lost \union lostBefore) = {}  OBVIOUS
    <3> QED  BY <1>2, <3>1, OneMore, FS_EmptySet
  <2>5. Steps(0, 1) = 0 /\ Steps(0, 1) < Total + crashes  BY <1>2 DEF Steps
  <2>6. Cardinality({}) - Steps(0, 1) \in 0..(crashes * ((Trigger - 1) * Required))
    BY <1>2, <2>5, OneMore, FS_EmptySet
  <2> QED  BY <1>1, <1>3, <2>1, <2>2, <2>3, <2>4, <2>5, <2>6, ResumeKeeps
<1>4. CASE tracker > 0
  <2>1. tracker = tracked /\ tracker \in Versions /\ Sound(tracked)
    BY <1>2, <1>4 DEF Unreadable
  <2>2. dirs[tracked].data \in Nat /\ ~NoCheckpoint
    <3>1. dirs[tracked].data \in Nat  BY <2>1 DEF Sound
    <3>2. NoDir.data = -1  BY DEF NoDir
    <3> QED  BY <2>1, <3>1, <3>2, <1>4 DEF NoCheckpoint, Absent
  <2>3. CASE Complete(tracked)
    <3> DEFINE p == dirs[tracked].data
    <3>1. Max({0, p}) = p
      <4>1. \A x \in {0, p} : (\A y \in {0, p} : x >= y) <=> x = p  BY <2>2
      <4> QED  BY <4>1 DEF Max
    <3>2. Resume(tracked, dirs[tracked].actor.of, p)
      BY <2>1, <2>2, <2>3, <3>1 DEF Restart
    <3>3. dirs[tracked].actor.state = "whole"  BY <2>3 DEF Complete
    <3>4. p \in 0..Drawn(crashes)  BY <1>1, <2>1, <2>2 DEF InReach
    <3>5. /\ dirs[tracked].actor.of \in SUBSET (1..p)
          /\ Cardinality((1..p) \ (dirs[tracked].actor.of \union lost \union lostBefore))
               <= crashes * MaxInFlight
          /\ Cardinality(dirs[tracked].actor.of) - Steps(tracked, 1)
               \in 0..(crashes * ((Trigger - 1) * Required))
          /\ Steps(tracked, 1) < Total + crashes
      BY <1>1, <2>1, <3>3 DEF Sound
    <3>6. dirs[tracked].data = p  OBVIOUS
    <3> HIDE DEF p
    <3> QED  BY <1>1, <1>2, <2>1, <3>2, <3>4, <3>5, <3>6, ResumeKeeps
  <2>4. CASE ~Complete(tracked)
    <3>1. keep = 1  BY <1>2, <1>4, <2>1, <2>4
    <3>2. pc' = "failed" /\ UNCHANGED <<version, local, ckpt, trained, final, pos, supply, step, done, losses>>
      BY <2>1, <2>2, <2>4 DEF Restart
    <3> QED  BY <1>1, <3>1, <3>2, FailedKeeps
  <2> QED  BY <2>3, <2>4
<1>5. CASE tracker = Unreadable
  <2>1. tracker \notin Versions /\ tracker /= Absent  BY <1>2, <1>5 DEF Unreadable, Absent
  <2>2. pc' = "failed" /\ UNCHANGED <<version, local, ckpt, trained, final, pos, supply, step, done, losses>>
    BY <2>1 DEF Restart, NoCheckpoint
  <2> QED  BY <1>1, <1>5, <2>2, FailedKeeps
<1> QED  BY <1>2, <1>3, <1>4, <1>5
-----------------------------------------------------------------------------
LEMMA NextKeeps == CheckpointInv /\ [Next]_vars => CheckpointInv'
<1> SUFFICES ASSUME CheckpointInv, [Next]_vars PROVE CheckpointInv'  OBVIOUS
<1>1. CASE Feed  BY <1>1, FeedKeeps
<1>2. CASE TrainStep  BY <1>2, TrainStepKeeps
<1>3. CASE LastSteps  BY <1>3, LastStepsKeeps
<1>4. CASE SaveCheckpoint
  <2>1. CASE ShardsBegin("actor", "actorWrites")  BY <2>1, ShardsBeginKeeps DEF Models
  <2>2. CASE ShardsEnd("actor", "actorWrites", IF useCritic THEN "critic" ELSE "data")
    <3> DEFINE next == IF useCritic THEN "critic" ELSE "data"
    <3>1. ShardsEnd("actor", "actorWrites", next) /\ "actor" \in Models  BY <2>2 DEF Models
    <3> QED  BY <3>1, ShardsEndKeeps
  <2>3. CASE ShardsBegin("critic", "criticWrites")  BY <2>3, ShardsBeginKeeps DEF Models
  <2>4. CASE ShardsEnd("critic", "criticWrites", "data")  BY <2>4, ShardsEndKeeps DEF Models
  <2>5. CASE SaveData  BY <2>5, SaveDataKeeps
  <2>6. CASE TrackerOpened  BY <2>6, TrackerOpenedKeeps
  <2>7. CASE TrackerWritten  BY <2>7, TrackerWrittenKeeps
  <2> QED  BY <1>4, <2>1, <2>2, <2>3, <2>4, <2>5, <2>6, <2>7 DEF SaveCheckpoint
<1>5. CASE Crash  BY <1>5, CrashKeeps
<1>6. CASE Restart  BY <1>6, RestartKeeps
<1>7. CASE UNCHANGED vars
  <2>1. UNCHANGED <<keep, useCritic, dirs, tracker, tracked, pc, version, local, ckpt, trained, kept,
                    final, pos, supply, step, done, pending, lost, lostBefore, crashes>>
    BY <1>7 DEF vars, disk, trainer, rollouter, losses
  <2>2. Lives' = Lives /\ \A v, l : Steps(v, l)' = Steps(v, l)  BY <2>1 DEF Lives, Steps
  <2>3. Typed' /\ InReach'  BY <2>1, <2>2 DEF CheckpointInv, Typed, InReach
  <2>4. Tracks' /\ Saves'  BY <2>1, <2>2 DEF CheckpointInv, Tracks, Saves, Sound, Complete, Up
  <2>5. Listed'  BY <2>1 DEF CheckpointInv, Listed, Newest, Up
  <2>6. Counts' /\ Accounted'  BY <2>1, <2>2 DEF CheckpointInv, Counts, Accounted, Up
  <2> QED  BY <2>3, <2>4, <2>5, <2>6 DEF CheckpointInv
<1>8. CASE SampleLost
  <2>1. PICK s \in pending : Lose({s})  BY <1>8 DEF SampleLost
  <2> QED  BY <1>8, <2>1, LoseKeeps DEF SampleLost, losses
<1>9. CASE StreamBreaks
  <2>1. PICK gone \in SUBSET pending : Lose(gone)  BY <1>9 DEF StreamBreaks
  <2> QED  BY <1>9, <2>1, LoseKeeps DEF StreamBreaks, losses
<1> QED  BY <1>1, <1>2, <1>3, <1>4, <1>5, <1>6, <1>7, <1>8, <1>9 DEF Next

LEMMA CheckpointInvariant == Spec => []CheckpointInv
<1>1. Init => CheckpointInv  BY InitInv
<1>2. CheckpointInv /\ [Next]_vars => CheckpointInv'  BY NextKeeps
<1> QED  BY <1>1, <1>2, PTL DEF Spec

\* A job that died can be started again, from a checkpoint no older than the
\* newest its tracker has named - wherever it died, however often, however old
\* checkpoints are rotated - unless the tracker was open, or only one is kept.
THEOREM RestartableHolds == Spec => []Restartable
<1>1. CheckpointInv => Restartable
  <2> SUFFICES ASSUME CheckpointInv PROVE Restartable  OBVIOUS
  <2>1. Up => ckpt = tracked /\ ckpt \in 0..version
    BY DEF CheckpointInv, Tracks, Typed
  <2>2. pc = "failed" /\ keep /= 1 => tracker = Unreadable  BY DEF CheckpointInv, Tracks
  <2> QED  BY <2>1, <2>2, CountsTyped DEF Restartable, CheckpointInv
<1> QED  BY <1>1, CheckpointInvariant, PTL

\* Every draw is trained on once at most in the life of the weights, and those
\* that neither are trained on nor on their way were lost by the pipeline (the
\* full queue, pause(), a worker that raised) or are what restarts found in
\* flight: for every number of crashes, at most MaxInFlight each.
THEOREM AccountedHolds == Spec => []Accounted
<1>1. CheckpointInv => Accounted  BY DEF CheckpointInv
<1> QED  BY <1>1, CheckpointInvariant, PTL

\* The state has its type, and rollouter and trainer differ in their counts by
\* what is on its way and what the process has lost, also after a restart, which
\* counts neither and forgets no version's steps.
THEOREM ConsistentHolds == Spec => []Consistent
<1>1. CheckpointInv => Consistent
  <2> SUFFICES ASSUME CheckpointInv PROVE Consistent  OBVIOUS
  <2> USE Sizes
  <2>1. TypeOK
    <3>1. version \in Nat /\ ckpt \in 0..version /\ version \in 0..(Total + MaxCrashes + 1)
      BY CountsTyped DEF CheckpointInv, Typed, Versions
    <3>2. Drawn(Lives) <= DataSize * Epochs * (MaxCrashes + 1) /\ Drawn(Lives) \in Nat
      <4>1. Lives \in Nat /\ Lives <= MaxCrashes + 1
        BY DEF CheckpointInv, Typed, Lives
      <4>2. Drawn(Lives) <= Drawn(MaxCrashes + 1) /\ Drawn(Lives) \in Nat
        BY <4>1, Grows DEF Drawn
      <4>3. Drawn(MaxCrashes + 1) = DataSize * Epochs * (MaxCrashes + 1)  BY DEF Drawn, OneLife
      <4> QED  BY <4>2, <4>3
    <3>3. DataSize * Epochs * (MaxCrashes + 1) \in Nat
      <4>1. OneLife * (MaxCrashes + 1) \in Nat  BY OneMore, MaxCrashes + 1 \in Nat
      <4> QED  BY <4>1 DEF OneLife
    <3>4. ASSUME NEW v \in Versions
          PROVE  /\ dirs[v].actor \in Shards /\ dirs[v].critic \in Shards
                 /\ dirs[v].data \in -1..(DataSize * Epochs * (MaxCrashes + 1))
      <4>1. dirs[v].actor \in Shards /\ dirs[v].critic \in Shards  BY DEF CheckpointInv, Typed
      <4>2. dirs[v].data \in -1..Drawn(Lives)  BY DEF CheckpointInv, InReach
      <4> QED  BY <3>2, <3>3, <4>1, <4>2
    <3>5. pos <= supply  BY DEF CheckpointInv, InReach
    <3>6. /\ local \in 1..Trigger /\ tracker \in Versions \union {Absent, Unreadable}
          /\ pending \union lost \union lostBefore \subseteq 1..pos
          /\ Cardinality(pending) <= MaxInFlight
      BY DEF CheckpointInv, Typed
    <3> QED  BY <3>1, <3>4, <3>5, <3>6 DEF TypeOK
  <2>2. StepsAgree
    <3>1. Required * (version * Trigger + local - 1) = Steps(version, local)
      <4>1. version \in Nat /\ local \in Nat /\ version * Trigger \in Nat
        BY CountsTyped DEF CheckpointInv, Typed
      <4>2. version * Trigger + local - 1 = version * Trigger + (local - 1)  BY <4>1
      <4> QED  BY <4>2 DEF Steps
    <3>2. crashes * (Trigger - 1) * Required = crashes * ((Trigger - 1) * Required)
      <4>1. crashes \in Nat  BY DEF CheckpointInv, Typed
      <4> QED  BY <4>1
    <3>3. Steps(version, local) \in Nat /\ Cardinality(trained) \in Nat
      BY CountsTyped DEF CheckpointInv
    <3> QED  BY <3>1, <3>2, <3>3 DEF CheckpointInv, Counts, StepsAgree
  <2> QED  BY <2>1, <2>2 DEF Consistent
<1> QED  BY <1>1, CheckpointInvariant, PTL
=============================================================================
