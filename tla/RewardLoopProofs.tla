-------------------------- MODULE RewardLoopProofs --------------------------
(***************************************************************************)
(* What the buckets, the semaphore and the executor of RewardLoop, and the *)
(* router it calls, guarantee for every number of items, every capacity,   *)
(* every size of a request and every schedule.                             *)
(***************************************************************************)
EXTENDS RewardLoop, FiniteSetTheorems, SequenceTheorems, TLAPS

\* What the bucket would hold if its owner looked now; negative while lent.
Holding(b) == tokens[b] + elapsed[b]

\* A large request that has taken its tokens and sleeps.
Pending(i, b) == stage[i] = Paid(b)

LimitType ==
  /\ stage \in [Items -> Stages] /\ sleep \in [Items -> Nat]
  /\ tokens \in [Buckets -> Int] /\ elapsed \in [Buckets -> Nat]
  /\ allowance \in [Buckets -> Int]

\* Never more than the capacity, nor than what a bucket that does not lend has.
Covered(b) == /\ Holding(b) <= MaxTokens[b]
              /\ 0 <= allowance[b] /\ Holding(b) <= allowance[b]

\* The sleep of a large request is what is missing for it, and until its end
\* the bucket is in debt.
SleepPays(b) == \A i \in Items : Pending(i, b) =>
  /\ Needs[b] <= allowance[b] + sleep[i]
  /\ Holding(b) + sleep[i] <= 0

\* Large requests end their sleeps one request's refill apart.
Spaced(b) == \A i, j \in Items : i /= j /\ Pending(i, b) /\ Pending(j, b) =>
  sleep[j] + Needs[b] <= sleep[i] \/ sleep[i] + Needs[b] <= sleep[j]

LimitInv == LimitType /\ \A b \in Buckets : Covered(b) /\ SleepPays(b) /\ Spaced(b)

\* The constants of one bucket.
LEMMA Capacities ==
  ASSUME RewardLoopAssumption, NEW b \in Buckets
  PROVE  MaxTokens[b] \in Nat \ {0} /\ Needs[b] \in Nat \ {0}
BY DEF RewardLoopAssumption

\* The two buckets are told apart by the stages of their requests.
LEMMA StagesDiffer ==
  ASSUME NEW b \in Buckets
  PROVE  /\ Paid(b) \notin Buckets \union {"generating", "decoding", "semaphore", "queued",
                                           "scoring", "done"}
         /\ \A c \in Buckets : Paid(b) = Paid(c) => b = c
         /\ AfterBucket(b) /= Paid(b) /\ \A c \in Buckets : AfterBucket(c) /= Paid(b)
         /\ {Paid(b), AfterBucket(b), b} \subseteq Stages
BY DEF Buckets, Paid, AfterBucket, Stages, BucketStages

LEMMA InitLimitInv == RewardLoopAssumption /\ Init => LimitInv
<1> SUFFICES ASSUME RewardLoopAssumption, Init PROVE LimitInv  OBVIOUS
<1>1. LimitType  BY DEF Init, LimitType, Stages, RewardLoopAssumption
<1>2. ASSUME NEW b \in Buckets PROVE Covered(b) /\ SleepPays(b) /\ Spaced(b)
  <2>1. Holding(b) = MaxTokens[b] /\ allowance[b] = MaxTokens[b]
    BY Capacities DEF Init, Holding
  <2>2. \A i \in Items : ~Pending(i, b)  BY StagesDiffer DEF Init, Pending
  <2> QED  BY <2>1, <2>2, Capacities DEF Covered, SleepPays, Spaced
<1> QED  BY <1>1, <1>2 DEF LimitInv

\* A step that leaves buckets and sleeps alone and makes no request pending.
LEMMA Elsewhere ==
  ASSUME LimitInv, UNCHANGED <<sleep, tokens, elapsed, allowance>>,
         stage' \in [Items -> Stages],
         \A i \in Items, b \in Buckets : Pending(i, b)' => Pending(i, b)
  PROVE  LimitInv'
BY DEF LimitInv, LimitType, Covered, SleepPays, Spaced, Holding

\* Time: the sleep of a pending request is not over when it passes.
LEMMA TickKeeps == RewardLoopAssumption /\ LimitInv /\ Tick => LimitInv'
<1> SUFFICES ASSUME RewardLoopAssumption, LimitInv, Tick PROVE LimitInv'  OBVIOUS
<1> USE DEF LimitInv
<1>1. stage' = stage /\ tokens' = tokens  BY DEF Tick
<1>2. \A b \in Buckets : elapsed'[b] = Least(elapsed[b] + 1, MaxTokens[b] - tokens[b])
  BY DEF Tick
<1>3. \A b \in Buckets : elapsed'[b] \in Nat /\ Holding(b)' <= MaxTokens[b]
                         /\ Holding(b)' <= Holding(b) + 1
  BY <1>1, <1>2, Capacities DEF Covered, Holding, LimitType, Least
<1>4. ASSUME NEW b \in Buckets
      PROVE  /\ allowance'[b] \in Int /\ 0 <= allowance'[b]
             /\ \/ allowance'[b] = allowance[b] + 1
                \/ Needs[b] <= allowance'[b] /\ MaxTokens[b] <= allowance'[b]
  <2> DEFINE most == IF Needs[b] > MaxTokens[b] THEN Needs[b] ELSE MaxTokens[b]
  <2>1. allowance'[b] = Least(allowance[b] + 1, most)  BY DEF Tick
  <2> QED  BY <2>1, Capacities DEF Covered, LimitType, Least
<1>5. \A i \in Items, b \in Buckets : Pending(i, b) => sleep[i] > 0 /\ sleep'[i] = sleep[i] - 1
  BY DEF Tick, Pending, BucketStages, LimitType
<1>6. LimitType'
  <2>1. sleep' \in [Items -> Nat]  BY DEF Tick, LimitType
  <2>2. elapsed' \in [Buckets -> Nat]  BY <1>3 DEF Tick
  <2>3. allowance' \in [Buckets -> Int]  BY <1>4 DEF Tick
  <2> QED  BY <1>1, <2>1, <2>2, <2>3 DEF LimitType
<1>7. ASSUME NEW b \in Buckets PROVE (Covered(b) /\ SleepPays(b) /\ Spaced(b))'
  <2> USE Capacities DEF LimitType
  <2>1. Covered(b)'
    <3>1. Holding(b) \in Int /\ Holding(b)' \in Int  BY <1>1, <1>3 DEF Holding
    <3>2. Holding(b) <= allowance[b]  BY DEF Covered
    <3> QED  BY <1>3, <1>4, <3>1, <3>2 DEF Covered
  <2>2. ASSUME NEW i \in Items, Pending(i, b)'
        PROVE  Needs[b] <= allowance'[b] + sleep'[i] /\ Holding(b)' + sleep'[i] <= 0
    <3>1. /\ Pending(i, b) /\ sleep[i] > 0 /\ sleep'[i] = sleep[i] - 1
          /\ Needs[b] <= allowance[b] + sleep[i] /\ Holding(b) + sleep[i] <= 0
      BY <1>1, <1>5, <2>2 DEF Pending, SleepPays
    <3>2. Holding(b) \in Int /\ Holding(b)' \in Int  BY <1>1, <1>3 DEF Holding
    <3> QED  BY <1>3, <1>4, <3>1, <3>2
  <2>3. Spaced(b)'  BY <1>1, <1>5 DEF Spaced, Pending
  <2> QED  BY <2>1, <2>2, <2>3 DEF SleepPays
<1> QED  BY <1>6, <1>7

\* A request that finds what it needs finds no debt; one that has to wait takes
\* nothing, or waits until after every large request before it.
LEMMA AcquiresKeeps ==
  ASSUME RewardLoopAssumption, LimitInv, NEW i \in Items, NEW b \in Buckets, Acquires(i, b)
  PROVE  LimitInv'
<1> USE Capacities, StagesDiffer DEF LimitInv, LimitType
<1> DEFINE missing == Needs[b] - Holding(b)
           takes   == IsLarge(b) \/ ~(missing > 0)
<1>1. Holding(b) \in Int /\ Refilled(b) = Holding(b)
  BY DEF Refilled, Holding, Least, Covered
<1>2. /\ stage[i] = b
      /\ tokens' = [tokens EXCEPT ![b] = Holding(b) - IF takes THEN Needs[b] ELSE 0]
      /\ elapsed' = [elapsed EXCEPT ![b] = 0]
      /\ IF missing > 0
           THEN /\ sleep' = [sleep EXCEPT ![i] = missing]
                /\ stage' = IF takes THEN [stage EXCEPT ![i] = Paid(b)] ELSE stage
                /\ allowance' = allowance
           ELSE Granted(i, b) /\ sleep' = sleep
  BY <1>1 DEF Acquires, ElapsedAfter
<1>3. Holding(b)' = Holding(b) - IF takes THEN Needs[b] ELSE 0
  BY <1>1, <1>2 DEF Holding
<1>4. \A c \in Buckets \ {b} : Holding(c)' = Holding(c) /\ allowance'[c] = allowance[c]
  BY <1>2 DEF Holding, Granted
<1>5. \A c \in Buckets : ~Pending(i, c)  BY <1>2 DEF Pending
<1>6. \A j \in Items \ {i} : stage'[j] = stage[j] /\ sleep'[j] = sleep[j]
  BY <1>2 DEF Granted
<1>7. \A j \in Items \ {i}, c \in Buckets : Pending(j, c)' = Pending(j, c)
  BY <1>6 DEF Pending
<1>8. \A c \in Buckets : Pending(i, c)' => c = b /\ missing > 0 /\ takes
  BY <1>2 DEF Pending, Granted
<1>9. LimitType'
  <2>1. stage' \in [Items -> Stages]  BY <1>2 DEF Granted
  <2>2. sleep' \in [Items -> Nat]  BY <1>1, <1>2
  <2>3. tokens' \in [Buckets -> Int] /\ elapsed' \in [Buckets -> Nat]  BY <1>1, <1>2
  <2>4. allowance' \in [Buckets -> Int]  BY <1>2 DEF Granted
  <2> QED  BY <2>1, <2>2, <2>3, <2>4
<1>10. ASSUME NEW c \in Buckets \ {b} PROVE (Covered(c) /\ SleepPays(c) /\ Spaced(c))'
  <2>1. Covered(c)'  BY <1>4 DEF Covered
  <2>2. \A j \in Items : Pending(j, c)' => j /= i /\ Pending(j, c)  BY <1>7, <1>8
  <2>3. SleepPays(c)'  BY <1>4, <1>6, <2>2 DEF SleepPays
  <2>4. Spaced(c)'  BY <1>6, <2>2 DEF Spaced
  <2> QED  BY <2>1, <2>3, <2>4
<1>11. CASE missing <= 0
  <2>1. allowance'[b] = allowance[b] - Needs[b] /\ Holding(b)' = Holding(b) - Needs[b]
    BY <1>1, <1>2, <1>3, <1>11 DEF Granted
  <2>2. Covered(b)'  BY <1>1, <1>11, <2>1 DEF Covered
  <2>3. \A j \in Items : ~Pending(j, b)'
    BY <1>1, <1>7, <1>8, <1>11 DEF SleepPays
  <2>4. (SleepPays(b) /\ Spaced(b))'  BY <2>3 DEF SleepPays, Spaced
  <2> QED  BY <1>9, <1>10, <2>2, <2>4
<1>12. CASE missing > 0 /\ ~takes
  <2>1. allowance'[b] = allowance[b] /\ Holding(b)' = Holding(b)
    BY <1>1, <1>2, <1>3, <1>12
  <2>2. \A j \in Items : Pending(j, b)' => j /= i /\ Pending(j, b)  BY <1>7, <1>8, <1>12
  <2>3. (Covered(b) /\ SleepPays(b) /\ Spaced(b))'
    BY <1>6, <2>1, <2>2 DEF Covered, SleepPays, Spaced
  <2> QED  BY <1>9, <1>10, <2>3
<1>13. CASE missing > 0 /\ takes
  <2>1. /\ allowance'[b] = allowance[b] /\ Holding(b)' = Holding(b) - Needs[b]
        /\ sleep'[i] = Needs[b] - Holding(b)
    BY <1>1, <1>2, <1>3, <1>13
  <2>2. Covered(b)'  BY <1>1, <2>1 DEF Covered
  <2>3. \A j \in Items \ {i} : Pending(j, b)' =>
          /\ Needs[b] <= allowance[b] + sleep[j] /\ Holding(b) + sleep[j] <= 0
          /\ sleep'[j] = sleep[j] /\ sleep[j] \in Nat
    BY <1>6, <1>7 DEF SleepPays
  <2>4. SleepPays(b)'
    <3>1. Needs[b] <= allowance'[b] + sleep'[i] /\ Holding(b)' + sleep'[i] <= 0
      BY <1>1, <2>1 DEF Covered
    <3>2. \A j \in Items \ {i} : Pending(j, b)' =>
            Needs[b] <= allowance'[b] + sleep'[j] /\ Holding(b)' + sleep'[j] <= 0
      BY <1>1, <2>1, <2>3
    <3> QED  BY <3>1, <3>2 DEF SleepPays
  <2>5. \A j \in Items \ {i} : Pending(j, b)' => sleep'[j] + Needs[b] <= sleep'[i]
    BY <1>1, <2>1, <2>3
  <2>6. Spaced(b)'  BY <1>6, <1>7, <2>5 DEF Spaced
  <2> QED  BY <1>9, <1>10, <2>2, <2>4, <2>6
<1> QED  BY <1>1, <1>11, <1>12, <1>13

\* The end of the sleep: the allowance has what the request takes from it.
LEMMA RepaidKeeps ==
  ASSUME RewardLoopAssumption, LimitInv, NEW i \in Items, NEW b \in Buckets, Repaid(i, b)
  PROVE  LimitInv'
<1> USE Capacities, StagesDiffer DEF LimitInv, LimitType
<1>1. /\ Pending(i, b) /\ sleep[i] = 0 /\ UNCHANGED <<sleep, tokens, elapsed>>
      /\ stage' = [stage EXCEPT ![i] = AfterBucket(b)]
      /\ allowance' = [allowance EXCEPT ![b] = @ - Needs[b]]
  BY DEF Repaid, Granted, Pending
<1>2. \A c \in Buckets : Holding(c)' = Holding(c) /\ Holding(c) \in Int  BY <1>1 DEF Holding
<1>3. \A j \in Items, c \in Buckets : Pending(j, c)' => j /= i /\ Pending(j, c)
  BY <1>1 DEF Pending
<1>4. Needs[b] <= allowance[b] /\ Holding(b) <= 0  BY <1>1, <1>2 DEF SleepPays
<1>5. LimitType'  BY <1>1
<1>6. ASSUME NEW c \in Buckets \ {b} PROVE (Covered(c) /\ SleepPays(c) /\ Spaced(c))'
  BY <1>1, <1>2, <1>3 DEF Covered, SleepPays, Spaced
<1>7. Covered(b)'  BY <1>1, <1>2, <1>4 DEF Covered
<1>8. \A j \in Items : Pending(j, b)' => Needs[b] <= sleep[j]
  BY <1>1, <1>3 DEF Spaced
<1>9. SleepPays(b)'  BY <1>1, <1>2, <1>3, <1>7, <1>8 DEF SleepPays, Covered
<1>10. Spaced(b)'  BY <1>1, <1>3 DEF Spaced
<1> QED  BY <1>5, <1>6, <1>7, <1>9, <1>10

\* Every other step leaves the buckets alone.
LEMMA OthersKeep ==
  ASSUME RewardLoopAssumption, LimitInv,
         \/ \E i \in Items : \/ Submits(i) \/ Decoded(i) \/ Enters(i) \/ TimesOut(i)
                            \/ Routing(i) \/ Router(i)
         \/ ThreadTakes \/ Wakes \/ UNCHANGED vars
  PROVE  LimitInv'
<1>1. UNCHANGED <<sleep, tokens, elapsed, allowance>>
  BY DEF Submits, Decoded, Enters, TimesOut, Routing, Routes, Router, ServerAnswers, AttemptFails,
         RouterGivesUp, Answers, ThreadTakes, Wakes, vars, itemVars, bucketVars
<1>2. \/ stage' = stage
      \/ \E j, s : /\ s \in Buckets \union {"decoding", "semaphore", "queued", "scoring", "done"}
                    /\ stage' = [stage EXCEPT ![j] = s]
  BY DEF Submits, Decoded, AfterDecode, Enters, TimesOut, Routing, Routes, Router, ServerAnswers,
         AttemptFails, RouterGivesUp, Answers, Returns, Ends, Scores, ThreadTakes, Wakes, vars,
         itemVars, Buckets
<1>3. stage' \in [Items -> Stages]
  BY <1>2 DEF LimitInv, LimitType, Stages, BucketStages, Buckets
<1>4. \A i \in Items, b \in Buckets : Pending(i, b)' => Pending(i, b)
  BY <1>2 DEF LimitInv, LimitType, Pending, Paid, Buckets
<1> QED  BY <1>1, <1>3, <1>4, Elsewhere

LEMMA NextKeeps == RewardLoopAssumption /\ LimitInv /\ [Next]_vars => LimitInv'
<1> SUFFICES ASSUME RewardLoopAssumption, LimitInv, [Next]_vars PROVE LimitInv'  OBVIOUS
<1>1. CASE \E i \in Items : Bucket(i)  BY <1>1, AcquiresKeeps, RepaidKeeps DEF Bucket
<1>2. CASE Tick  BY <1>2, TickKeeps
<1>3. CASE \/ \E i \in Items : \/ Submits(i) \/ Decoded(i) \/ Enters(i) \/ TimesOut(i)
                               \/ Routing(i) \/ Router(i)
           \/ ThreadTakes \/ Wakes \/ UNCHANGED vars
  BY <1>3, OthersKeep
<1> QED  BY <1>1, <1>2, <1>3 DEF Next, BatchDone

\* No bucket lets through more than its capacity and its rate allow in any
\* stretch of time (AsyncTokenBucket.acquire), however many ask for how much.
THEOREM ConformsHolds == Spec => []Conforms
<1>1. LimitInv => Conforms  BY DEF LimitInv, Covered, Conforms
<1> QED  BY RewardLoopAssumption, InitLimitInv, NextKeeps, <1>1, PTL DEF Spec
-----------------------------------------------------------------------------
(* The router.                                                             *)

\* The items with a request at u.
Under(u) == {i \in Items : at[i] = u}

\* A request is counted from its choice of a server until its answer, and for
\* ever if it is given up: only a server that failed once has too many.
RouterInv ==
  /\ at \in [Items -> Urls \union {"none", "over"}]
  /\ requestCounts \in [Urls -> Nat] /\ failedOnce \subseteq Urls
  /\ \A u \in Urls : /\ InFlight(u) <= requestCounts[u]
                     /\ u \notin failedOnce => InFlight(u) = requestCounts[u]

LEMMA UnderCounted ==
  ASSUME RewardLoopAssumption, NEW u
  PROVE  IsFiniteSet(Under(u)) /\ InFlight(u) = Cardinality(Under(u)) /\ InFlight(u) \in Nat
<1>1. Under(u) \subseteq Items  BY DEF Under
<1> QED  BY <1>1, FS_Subset, FS_CardinalityType DEF Under, InFlight, RewardLoopAssumption

\* A request that comes to a server and one that leaves it.
LEMMA Comes ==
  ASSUME RewardLoopAssumption, NEW i \in Items, NEW u \in Urls,
         at \in [Items -> Urls \union {"none", "over"}], at[i] \notin Urls,
         at' = [at EXCEPT ![i] = u]
  PROVE  InFlight(u)' = InFlight(u) + 1 /\ \A v \in Urls \ {u} : InFlight(v)' = InFlight(v)
<1>1. Under(u)' = Under(u) \union {i} /\ i \notin Under(u)  BY DEF Under
<1>2. \A v \in Urls \ {u} : Under(v)' = Under(v)  BY DEF Under
<1>3. \A v : InFlight(v)' = Cardinality(Under(v)')  BY DEF InFlight, Under
<1> QED  BY <1>1, <1>2, <1>3, UnderCounted, FS_AddElement

LEMMA Leaves ==
  ASSUME RewardLoopAssumption, NEW i \in Items, NEW u \in Urls,
         at \in [Items -> Urls \union {"none", "over"}], at[i] = u,
         at' = [at EXCEPT ![i] = "over"]
  PROVE  InFlight(u)' = InFlight(u) - 1 /\ \A v \in Urls \ {u} : InFlight(v)' = InFlight(v)
<1>1. Under(u)' = Under(u) \ {i} /\ i \in Under(u)  BY DEF Under, RewardLoopAssumption
<1>2. \A v \in Urls \ {u} : Under(v)' = Under(v)  BY DEF Under, RewardLoopAssumption
<1>3. \A v : InFlight(v)' = Cardinality(Under(v)')  BY DEF InFlight, Under
<1> QED  BY <1>1, <1>2, <1>3, UnderCounted, FS_RemoveElement

LEMMA InitRouterInv == RewardLoopAssumption /\ Init => RouterInv
<1> SUFFICES ASSUME RewardLoopAssumption, Init PROVE RouterInv  OBVIOUS
<1>1. \A u \in Urls : Under(u) = {}  BY DEF Under, Init, RewardLoopAssumption
<1>2. \A u \in Urls : InFlight(u) = 0  BY <1>1, UnderCounted, FS_EmptySet
<1> QED  BY <1>2 DEF RouterInv, Init

LEMMA RoutesKeeps ==
  ASSUME RewardLoopAssumption, RouterInv, NEW i \in Items, NEW u \in Urls, Routes(i, u)
  PROVE  RouterInv'
<1> USE DEF RouterInv
<1>1. at[i] \notin Urls /\ at' = [at EXCEPT ![i] = u]  BY DEF Routes, RewardLoopAssumption
<1>2. requestCounts' = [requestCounts EXCEPT ![u] = @ + 1] /\ failedOnce' = failedOnce
  BY DEF Routes
<1>3. InFlight(u)' = InFlight(u) + 1 /\ \A v \in Urls \ {u} : InFlight(v)' = InFlight(v)
  BY <1>1, Comes
<1>4. \A v \in Urls : InFlight(v) \in Nat  BY UnderCounted
<1> QED  BY <1>1, <1>2, <1>3, <1>4

\* An answer takes one off; a request that is given up only leaves.
LEMMA RouterKeeps ==
  ASSUME RewardLoopAssumption, RouterInv, NEW i \in Items, Router(i)
  PROVE  RouterInv'
<1> USE DEF RouterInv
<1>1. \A v \in Urls : InFlight(v) \in Nat  BY UnderCounted
<1>2. CASE AttemptFails(i)
  BY <1>2 DEF AttemptFails, CountsAfterFailure, InFlight
<1>3. ASSUME NEW s \in Urls, at[i] = s, ServerAnswers(i) \/ RouterGivesUp(i) PROVE RouterInv'
  <2>1. at' = [at EXCEPT ![i] = "over"]  BY <1>3 DEF ServerAnswers, RouterGivesUp, Answers
  <2>2. InFlight(s)' = InFlight(s) - 1 /\ \A v \in Urls \ {s} : InFlight(v)' = InFlight(v)
    BY <1>3, <2>1, Leaves
  <2>3. InFlight(s) > 0
    <3>1. i \in Under(s) /\ IsFiniteSet(Under(s)) /\ InFlight(s) = Cardinality(Under(s))
      BY <1>3, UnderCounted DEF Under
    <3> QED  BY <1>1, <3>1, FS_EmptySet
  <2>4. CASE ServerAnswers(i)
    <3>1. requestCounts[s] \in Nat /\ requestCounts[s] > 0  BY <1>1, <2>3
    <3>2. /\ requestCounts' = [requestCounts EXCEPT ![s] = requestCounts[s] - 1]
          /\ failedOnce' = failedOnce
      BY <1>3, <2>4, <3>1 DEF ServerAnswers, Released
    <3> QED  BY <1>1, <2>1, <2>2, <2>3, <3>1, <3>2
  <2>5. CASE RouterGivesUp(i)
    <3>1. requestCounts' = requestCounts /\ failedOnce' = failedOnce \union {s}
      BY <1>3, <2>5 DEF RouterGivesUp
    <3> QED  BY <1>1, <2>1, <2>2, <3>1
  <2> QED  BY <1>3, <2>4, <2>5
<1> QED  BY <1>2, <1>3 DEF Router, ServerAnswers, RouterGivesUp

LEMMA NextKeepsRouter == RewardLoopAssumption /\ RouterInv /\ [Next]_vars => RouterInv'
<1> SUFFICES ASSUME RewardLoopAssumption, RouterInv, [Next]_vars PROVE RouterInv'  OBVIOUS
<1>1. CASE \E i \in Items : Routing(i)  BY <1>1, RoutesKeeps DEF Routing
<1>2. CASE \E i \in Items : Router(i)  BY <1>2, RouterKeeps
<1>3. CASE \/ \E i \in Items : Submits(i) \/ Decoded(i) \/ Bucket(i) \/ Enters(i) \/ TimesOut(i)
           \/ ThreadTakes \/ Wakes \/ Tick \/ UNCHANGED vars
  <2>1. UNCHANGED <<at, requestCounts, failedOnce>>
    BY <1>3 DEF Submits, Decoded, Bucket, Acquires, Repaid, Enters, TimesOut, ThreadTakes, Wakes,
                Tick, vars, routerVars
  <2> QED  BY <2>1 DEF RouterInv, InFlight
<1> QED  BY <1>1, <1>2, <1>3 DEF Next, BatchDone

\* The choice of NaiveRouter._select_worker is right about every server that has
\* never failed a request, however many were lost elsewhere.
THEOREM LeastLoadedHolds == Spec => LeastLoaded
<1> DEFINE Chooses == \A i \in Items, u \in Urls : at[i] = "none" /\ at'[i] = u =>
                        \A v \in Urls \ failedOnce : InFlight(u) <= InFlight(v)
<1>1. RewardLoopAssumption /\ RouterInv /\ [Next]_vars => [Chooses]_vars
  <2> SUFFICES ASSUME RewardLoopAssumption, RouterInv, Next,
                      NEW i \in Items, NEW u \in Urls, at[i] = "none", at'[i] = u,
                      NEW v \in Urls \ failedOnce
               PROVE  InFlight(u) <= InFlight(v)
    OBVIOUS
  <2>1. Routes(i, u)
    <3>1. u /= "none" /\ u /= "over" /\ "none" \notin Urls  BY DEF RewardLoopAssumption
    <3>2. ~UNCHANGED at  BY <3>1
    <3>3. ASSUME NEW j \in Items, Router(j) PROVE FALSE
      BY <3>1, <3>2, <3>3 DEF Router, ServerAnswers, AttemptFails, RouterGivesUp, Answers, RouterInv
    <3>4. PICK j \in Items : Routing(j)
      BY <3>2, <3>3 DEF Next, BatchDone, Submits, Decoded, Bucket, Acquires, Repaid, Enters, TimesOut,
                        ThreadTakes, Wakes, Tick, vars, routerVars
    <3>5. PICK w \in Urls : Routes(j, w)  BY <3>4 DEF Routing
    <3>6. j = i /\ w = u  BY <3>1, <3>5 DEF Routes, RouterInv
    <3> QED  BY <3>5, <3>6
  <2>2. requestCounts[u] <= requestCounts[v]  BY <2>1 DEF Routes
  <2> QED  BY <2>2, UnderCounted DEF RouterInv
<1> QED  BY RewardLoopAssumption, InitRouterInv, NextKeepsRouter, <1>1, PTL DEF Spec, LeastLoaded
-----------------------------------------------------------------------------
(* Stages, permits and threads: how many scoring functions run.            *)

AllJobs == [kind : {"decode", "score"}, item : Items]
Scoring == {i \in Items : stage[i] = "scoring"}

StageType ==
  /\ isAsync \in BOOLEAN /\ stage \in [Items -> Stages]
  /\ {timer, tries} \subseteq [Items -> Nat]
  /\ outcome \in [Items -> {"none", "scored", "timeout", "error"}]
  /\ call \in [Items -> {"none", "open", "closed"}]
  /\ \A i \in Items : outcome[i] = "none" <=> stage[i] /= "done"

\* Who waits for a permit waits once; a permit is out for every item that scores.
Permits ==
  /\ semQueue \in Seq(Items)
  /\ \A n \in DOMAIN semQueue : stage[semQueue[n]] = "queued"
  /\ \A n, m \in DOMAIN semQueue : semQueue[n] = semQueue[m] => n = m
  /\ free \in Nat /\ free + Cardinality(Scoring) = MaxConcurrent

\* A job waits or runs once, and is of an item that is waiting for it, but for
\* scoring functions in a thread.
Pool ==
  /\ jobs \in Seq(AllJobs) /\ threads \subseteq AllJobs
  /\ IsFiniteSet(threads) /\ Cardinality(threads) <= Threads
  /\ \A n \in DOMAIN jobs :
       /\ jobs[n] \notin threads
       /\ jobs[n].kind = "decode" => stage[jobs[n].item] = "decoding"
       /\ jobs[n].kind = "score"  => stage[jobs[n].item] = "scoring" /\ ~isAsync
  /\ \A n, m \in DOMAIN jobs : jobs[n] = jobs[m] => n = m
  /\ \A i \in Items : /\ Job("decode", i) \in threads => stage[i] = "decoding"
                      /\ Job("score", i) \in threads  => stage[i] \in {"scoring", "done"}

\* A scoring function that runs has a permit, or a thread.
Running == \A i \in Items : call[i] = "open" =>
             IF isAsync THEN stage[i] = "scoring" ELSE Job("score", i) \in threads

PoolInv == StageType /\ Permits /\ Pool /\ Running
LEMMA LoopConstants ==
  /\ {MaxConcurrent, Timeout, Threads, MaxAttempts} \subseteq Nat \ {0} /\ IsFiniteSet(Items)
BY RewardLoopAssumption DEF RewardLoopAssumption

\* A sequence without one of its elements, which was in it once at most.
LEMMA WithoutOne ==
  ASSUME NEW S, NEW s \in Seq(S), NEW e, \A n, m \in DOMAIN s : s[n] = s[m] => n = m
  PROVE  /\ RemoveFirst(s, e) \in Seq(S)
         /\ \A n \in DOMAIN RemoveFirst(s, e) :
              RemoveFirst(s, e)[n] /= e /\ \E k \in DOMAIN s : RemoveFirst(s, e)[n] = s[k]
         /\ \A n, m \in DOMAIN RemoveFirst(s, e) :
              RemoveFirst(s, e)[n] = RemoveFirst(s, e)[m] => n = m
<1>0. DOMAIN s = 1 .. Len(s) /\ Len(s) \in Nat  OBVIOUS
<1>1. CASE ~\E k \in 1 .. Len(s) : s[k] = e
  <2>1. RemoveFirst(s, e) = s  BY <1>1 DEF RemoveFirst
  <2> QED  BY <1>0, <1>1, <2>1
<1>2. ASSUME NEW p \in 1 .. Len(s), s[p] = e
      PROVE  /\ RemoveFirst(s, e) \in Seq(S)
             /\ \A n \in DOMAIN RemoveFirst(s, e) :
                  RemoveFirst(s, e)[n] /= e /\ \E k \in DOMAIN s : RemoveFirst(s, e)[n] = s[k]
             /\ \A n, m \in DOMAIN RemoveFirst(s, e) :
                  RemoveFirst(s, e)[n] = RemoveFirst(s, e)[m] => n = m
  <2> DEFINE left  == SubSeq(s, 1, p - 1)
             right == SubSeq(s, p + 1, Len(s))
             rest  == left \o right
  <2>1. {k \in 1 .. Len(s) : s[k] = e} = {p}  BY <1>0, <1>2
  <2>2. SelectInSeq(s, LAMBDA v : v = e) = p
    <3>1. Min({p}) = p  BY DEF Min
    <3> QED  BY <2>1, <3>1 DEF SelectInSeq
  <2>3. RemoveFirst(s, e) = rest  BY <1>2, <2>2 DEF RemoveFirst, RemoveAt
  <2>4. left \in Seq(S) /\ Len(left) = p - 1 /\ \A n \in 1 .. p - 1 : left[n] = s[n]
    <3>1. \A i \in 1 .. p - 1 : s[i] \in S  BY <1>0, ElementOfSeq
    <3> QED  BY <1>0, <3>1, SubSeqProperties
  <2>5. right \in Seq(S) /\ Len(right) = Len(s) - p /\ \A n \in 1 .. Len(s) - p : right[n] = s[p + n]
    <3>1. \A i \in p + 1 .. Len(s) : s[i] \in S  BY <1>0, ElementOfSeq
    <3>2. p + 1 \in Int /\ Len(s) \in Int  BY <1>0
    <3>3. /\ right \in Seq(S)
          /\ Len(right) = IF p + 1 <= Len(s) THEN Len(s) - (p + 1) + 1 ELSE 0
          /\ \A n \in 1 .. Len(s) - (p + 1) + 1 : right[n] = s[p + 1 + n - 1]
      BY ONLY <3>1, <3>2, SubSeqProperties, SMTT(60)
    <3> HIDE DEF right
    <3>4. Len(s) - (p + 1) + 1 = Len(s) - p  BY <1>0
    <3>5. \A n \in 1 .. Len(s) - p : p + 1 + n - 1 = p + n  BY <1>0
    <3>6. p \in 1 .. Len(s) /\ Len(s) \in Nat  BY <1>0
    <3>7. Len(right) = Len(s) - p  BY ONLY <3>3, <3>6
    <3> QED  BY <3>3, <3>4, <3>5, <3>7
  <2> HIDE DEF left, right
  <2>6. /\ rest \in Seq(S) /\ Len(rest) = Len(s) - 1
        /\ \A n \in 1 .. Len(s) - 1 : rest[n] = IF n < p THEN s[n] ELSE s[n + 1]
    <3>1. /\ rest \in Seq(S) /\ Len(rest) = Len(left) + Len(right)
          /\ \A n \in 1 .. Len(left) + Len(right) :
               rest[n] = IF n <= Len(left) THEN left[n] ELSE right[n - Len(left)]
      BY <2>4, <2>5, ConcatProperties, ZenonT(60)
    <3>2. Len(left) + Len(right) = Len(s) - 1  BY <1>0, <2>4, <2>5
    <3> HIDE DEF rest
    <3>3. ASSUME NEW n \in 1 .. Len(s) - 1 PROVE rest[n] = IF n < p THEN s[n] ELSE s[n + 1]
      <4>1. CASE n < p  BY <1>0, <2>4, <3>1, <3>2, <4>1
      <4>2. CASE ~(n < p)
        <5>1. n - (p - 1) \in 1 .. Len(s) - p /\ p + (n - (p - 1)) = n + 1  BY <1>0, <4>2
        <5>2. rest[n] = right[n - (p - 1)]  BY <1>0, <2>4, <3>1, <3>2, <4>2
        <5> QED  BY <2>5, <4>2, <5>1, <5>2
      <4> QED  BY <4>1, <4>2
    <3> QED  BY <3>1, <3>2, <3>3
  <2> HIDE DEF rest
  <2> DEFINE from(n) == IF n < p THEN n ELSE n + 1
  <2>7. \A n \in 1 .. Len(s) - 1 : from(n) \in 1 .. Len(s) /\ from(n) /= p /\ rest[n] = s[from(n)]
    BY <1>0, <2>6
  <2>8. \A n, m \in 1 .. Len(s) - 1 : from(n) = from(m) => n = m  BY <1>0
  <2>9. DOMAIN rest = 1 .. Len(s) - 1  BY <2>6
  <2> HIDE DEF from
  <2> QED  BY <1>0, <1>2, <2>3, <2>6, <2>7, <2>8, <2>9, SMTT(60)
<1> QED  BY <1>1, <1>2

LEMMA InitPoolInv == Init => PoolInv
<1> SUFFICES ASSUME Init PROVE PoolInv  OBVIOUS
<1> USE LoopConstants DEF Init
<1>1. StageType  BY DEF StageType, Stages
<1>2. Permits
  <2>1. Scoring = {}  BY DEF Scoring
  <2> QED  BY <2>1, FS_EmptySet DEF Permits
<1>3. Pool  BY FS_EmptySet DEF Pool
<1>4. Running  BY DEF Running
<1> QED  BY <1>1, <1>2, <1>3, <1>4 DEF PoolInv

\* The items that score, and that one begins or ends.
LEMMA ScoringChanges ==
  ASSUME StageType, NEW i \in Items, NEW x, stage' = [stage EXCEPT ![i] = x]
  PROVE  /\ IsFiniteSet(Scoring) /\ Cardinality(Scoring) \in Nat
         /\ stage[i] /= "scoring" /\ x /= "scoring" => Scoring' = Scoring
         /\ stage[i] /= "scoring" /\ x = "scoring" => Cardinality(Scoring') = Cardinality(Scoring) + 1
         /\ stage[i] = "scoring" /\ x /= "scoring" => Cardinality(Scoring') = Cardinality(Scoring) - 1
<1>1. IsFiniteSet(Scoring) /\ Cardinality(Scoring) \in Nat
  <2>1. Scoring \subseteq Items  BY DEF Scoring
  <2> QED  BY <2>1, LoopConstants, FS_Subset, FS_CardinalityType
<1>2. CASE stage[i] /= "scoring" /\ x /= "scoring"
  <2>1. Scoring' = Scoring  BY <1>2 DEF Scoring, StageType
  <2> QED  BY <1>1, <1>2, <2>1
<1>3. CASE stage[i] /= "scoring" /\ x = "scoring"
  <2>1. Scoring' = Scoring \union {i} /\ i \notin Scoring  BY <1>3 DEF Scoring, StageType
  <2>2. Cardinality(Scoring \union {i}) = Cardinality(Scoring) + 1  BY <1>1, <2>1, FS_AddElement
  <2> QED  BY <1>1, <1>3, <2>1, <2>2
<1>4. CASE stage[i] = "scoring" /\ x /= "scoring"
  <2>1. Scoring' = Scoring \ {i} /\ i \in Scoring  BY <1>4 DEF Scoring, StageType
  <2>2. Cardinality(Scoring \ {i}) = Cardinality(Scoring) - 1  BY <1>1, <2>1, FS_RemoveElement
  <2> QED  BY <1>1, <1>4, <2>1, <2>2
<1>5. CASE stage[i] = "scoring" /\ x = "scoring"  BY <1>1, <1>5
<1> QED  BY <1>2, <1>3, <1>4, <1>5

\* What the two queues hold.
LEMMA Queued ==
  ASSUME PoolInv
  PROVE  /\ DOMAIN semQueue = 1 .. Len(semQueue) /\ Len(semQueue) \in Nat
         /\ \A n \in DOMAIN semQueue : semQueue[n] \in Items
         /\ DOMAIN jobs = 1 .. Len(jobs) /\ Len(jobs) \in Nat
         /\ \A n \in DOMAIN jobs : /\ jobs[n] \in AllJobs /\ jobs[n].item \in Items
                                  /\ jobs[n] = Job(jobs[n].kind, jobs[n].item)
<1>1. semQueue \in Seq(Items) /\ jobs \in Seq(AllJobs)  BY DEF PoolInv, Permits, Pool
<1>2. \A n \in DOMAIN semQueue : semQueue[n] \in Items  BY <1>1, ElementOfSeq
<1>3. \A n \in DOMAIN jobs : jobs[n] \in AllJobs  BY <1>1, ElementOfSeq
<1>4. \A j \in AllJobs : j.item \in Items /\ j = Job(j.kind, j.item)  BY DEF AllJobs, Job
<1> QED  BY <1>1, <1>2, <1>3, <1>4

\* An item passes from one bucket to the next, or to the semaphore.
LEMMA BucketKeepsPool ==
  ASSUME PoolInv, NEW i \in Items, NEW b \in Buckets, Acquires(i, b) \/ Repaid(i, b)
  PROVE  PoolInv'
<1> USE DEF PoolInv
<1>1. /\ UNCHANGED <<isAsync, timer, outcome, semVars, poolVars, call, tries>>
      /\ stage[i] \in BucketStages
      /\ \E x \in BucketStages \union {"semaphore"} : stage' = [stage EXCEPT ![i] = x]
  <2>1. stage = [stage EXCEPT ![i] = stage[i]]  BY DEF StageType
  <2>2. {b, Paid(b), AfterBucket(b)} \subseteq BucketStages \union {"semaphore"}
    BY DEF BucketStages, Buckets, Paid, AfterBucket
  <2>3. stage[i] \in {b, Paid(b)}  BY DEF Acquires, Repaid
  <2>4. b \in BucketStages /\ Paid(b) \in BucketStages  BY DEF BucketStages
  <2>5. stage' \in {stage, [stage EXCEPT ![i] = Paid(b)], [stage EXCEPT ![i] = AfterBucket(b)]}
    BY DEF Acquires, Repaid, Granted
  <2>6. UNCHANGED <<isAsync, timer, outcome, semVars, poolVars, call, tries>>
    BY DEF Acquires, Repaid, routerVars
  <2>7. \E x \in BucketStages \union {"semaphore"} : stage' = [stage EXCEPT ![i] = x]
    BY <2>1, <2>2, <2>3, <2>4, <2>5
  <2> QED  BY <2>3, <2>4, <2>6, <2>7
<1>2. PICK x \in BucketStages \union {"semaphore"} : stage' = [stage EXCEPT ![i] = x]  BY <1>1
<1>3. {stage[i], x} \intersect {"scoring", "queued", "decoding", "done"} = {} /\ x \in Stages
  BY <1>1, <1>2 DEF BucketStages, Buckets, Paid, Stages
<1>4. Scoring' = Scoring  BY <1>2, <1>3, ScoringChanges
<1>5. StageType'  BY <1>1, <1>2, <1>3 DEF StageType
<1>6. Permits'
  <2>1. \A n \in DOMAIN semQueue : stage'[semQueue[n]] = "queued"
    BY <1>2, <1>3, Queued DEF Permits, StageType
  <2> QED  BY <1>1, <1>4, <2>1 DEF Permits, semVars
<1>7. Pool'
  <2>1. \A k \in Items : stage[k] \in {"decoding", "scoring", "done"} => stage'[k] = stage[k]
    BY <1>2, <1>3 DEF StageType
  <2> HIDE DEF PoolInv
  <2>2. UNCHANGED <<isAsync, jobs, threads>>  BY <1>1 DEF poolVars
  <2>3. \A n \in DOMAIN jobs : jobs[n].item \in Items  BY Queued
  <2> QED  BY <2>1, <2>2, <2>3 DEF Pool, PoolInv
<1>8. Running'  BY <1>1, <1>2, <1>3 DEF Running, poolVars, StageType
<1> QED  BY <1>5, <1>6, <1>7, <1>8

\* An agent loop ends: the decoding waits for a thread.
LEMMA SubmitsKeepsPool ==
  ASSUME PoolInv, NEW i \in Items, Submits(i)
  PROVE  PoolInv'
<1> USE DEF PoolInv
<1>1. stage[i] = "generating" /\ stage' = [stage EXCEPT ![i] = "decoding"]
      /\ jobs' = Append(jobs, Job("decode", i))
      /\ UNCHANGED <<isAsync, timer, outcome, semVars, threads, call, tries>>
  BY DEF Submits, routerVars
<1>2. Scoring' = Scoring
  <2> HIDE DEF PoolInv
  <2>1. StageType  BY DEF PoolInv
  <2>2. PICK x : x = "decoding"  OBVIOUS
  <2>3. stage' = [stage EXCEPT ![i] = x] /\ stage[i] /= "scoring" /\ x /= "scoring"  BY <1>1, <2>2
  <2> QED  BY <2>1, <2>3, ScoringChanges
<1>3. StageType'  BY <1>1 DEF StageType, Stages
<1>4. Permits'  BY <1>1, <1>2 DEF Permits, semVars, StageType
<1>5. Pool'
  <2>1. Job("decode", i) \in AllJobs /\ Job("decode", i).kind = "decode" /\ Job("decode", i).item = i
    BY DEF Job, AllJobs
  <2>2. Job("decode", i) \notin threads  BY <1>1 DEF Pool
  <2>3. \A n \in DOMAIN jobs : jobs[n] /= Job("decode", i)  BY <1>1, <2>1 DEF Pool
  <2>4. /\ jobs' \in Seq(AllJobs) /\ DOMAIN jobs' = 1 .. Len(jobs) + 1 /\ DOMAIN jobs = 1 .. Len(jobs)
        /\ \A n \in DOMAIN jobs : jobs'[n] = jobs[n]
        /\ jobs'[Len(jobs) + 1] = Job("decode", i)
    BY <1>1, <2>1, AppendProperties DEF Pool
  <2>5. \A n \in DOMAIN jobs' : n \in DOMAIN jobs \/ jobs'[n] = Job("decode", i)  BY <2>4
  <2>6. \A n, m \in DOMAIN jobs' : jobs'[n] = jobs'[m] => n = m
    BY <2>3, <2>4 DEF Pool
  <2>7. ASSUME NEW n \in DOMAIN jobs'
        PROVE  /\ jobs'[n] \notin threads
               /\ jobs'[n].kind = "decode" => stage'[jobs'[n].item] = "decoding"
               /\ jobs'[n].kind = "score"  => stage'[jobs'[n].item] = "scoring" /\ ~isAsync
    <3>1. CASE jobs'[n] = Job("decode", i)  BY <1>1, <2>1, <2>2, <3>1 DEF StageType
    <3>2. CASE n \in DOMAIN jobs
      <4>1. jobs[n] \in AllJobs /\ jobs'[n] = jobs[n]  BY <2>4, <3>2 DEF Pool
      <4>2. jobs[n].item \in Items  BY <4>1 DEF AllJobs
      <4> QED  BY <1>1, <3>2, <4>1, <4>2 DEF Pool, StageType
    <3> QED  BY <2>5, <3>1, <3>2
  <2>8. \A k \in Items : /\ Job("decode", k) \in threads => stage'[k] = "decoding"
                        /\ Job("score", k) \in threads  => stage'[k] \in {"scoring", "done"}
    BY <1>1 DEF Pool, StageType
  <2> QED  BY <1>1, <2>4, <2>6, <2>7, <2>8 DEF Pool
<1>6. Running'  BY <1>1 DEF Running, StageType
<1> QED  BY <1>3, <1>4, <1>5, <1>6

\* The response is decoded; the item goes to a bucket or to the semaphore.
LEMMA DecodedKeepsPool ==
  ASSUME PoolInv, NEW i \in Items, Decoded(i)
  PROVE  PoolInv'
<1> USE DEF PoolInv
<1>1. Job("decode", i) \in threads /\ threads' = threads \ {Job("decode", i)}
      /\ stage[i] = "decoding" /\ stage' = [stage EXCEPT ![i] = AfterDecode]
      /\ UNCHANGED <<isAsync, timer, outcome, semVars, jobs, call, tries>>
  BY DEF Decoded, routerVars, Pool
<1>2. AfterDecode \in Stages \ {"scoring", "queued", "decoding", "done"}
  BY DEF AfterDecode, Stages, BucketStages, Buckets
<1>3. Scoring' = Scoring  BY <1>1, <1>2, ScoringChanges
<1>4. StageType'  BY <1>1, <1>2 DEF StageType
<1>5. Permits'  BY <1>1, <1>2, <1>3 DEF Permits, semVars, StageType
<1>6. Pool'
  <2>1. IsFiniteSet(threads') /\ Cardinality(threads') <= Threads
    <3>1. threads' \subseteq threads  BY <1>1
    <3>2. Cardinality(threads) \in Nat /\ IsFiniteSet(threads')
          /\ Cardinality(threads') <= Cardinality(threads) /\ Cardinality(threads') \in Nat
      BY <3>1, FS_Subset, FS_CardinalityType DEF Pool
    <3> QED  BY <3>2, LoopConstants DEF Pool
  <2>2. ASSUME NEW n \in DOMAIN jobs
        PROVE  /\ jobs[n] \notin threads'
               /\ jobs[n].kind = "decode" => stage'[jobs[n].item] = "decoding"
               /\ jobs[n].kind = "score"  => stage'[jobs[n].item] = "scoring" /\ ~isAsync
    <3>1. jobs[n] \in AllJobs  BY DEF Pool
    <3>2. jobs[n] = Job(jobs[n].kind, jobs[n].item) /\ jobs[n].item \in Items  BY <3>1 DEF AllJobs, Job
    <3>3. jobs[n].kind = "decode" => jobs[n].item /= i  BY <1>1, <3>2 DEF Pool
    <3> QED  BY <1>1, <3>2, <3>3 DEF Pool, StageType
  <2>3. \A k \in Items : /\ Job("decode", k) \in threads' => stage'[k] = "decoding"
                        /\ Job("score", k) \in threads'  => stage'[k] \in {"scoring", "done"}
    BY <1>1 DEF Pool, StageType
  <2> QED  BY <1>1, <2>1, <2>2, <2>3 DEF Pool
<1>7. Running'
  <2>1. \A k \in Items : Job("score", k) /= Job("decode", i)  BY DEF Job
  <2> QED  BY <1>1, <2>1 DEF Running, StageType
<1> QED  BY <1>4, <1>5, <1>6, <1>7

\* _compute_reward begins.
LEMMA ScoresKeeps ==
  ASSUME PoolInv, NEW i \in Items, stage[i] \in {"semaphore", "queued"}, Scores(i),
         UNCHANGED <<isAsync, outcome, tries>>
  PROVE  /\ StageType' /\ Pool' /\ Running'
         /\ Cardinality(Scoring') = Cardinality(Scoring) + 1
         /\ \A k \in Items \ {i} : stage'[k] = stage[k]
<1> USE DEF PoolInv
<1>1. stage' = [stage EXCEPT ![i] = "scoring"] /\ timer' = [timer EXCEPT ![i] = Timeout]
  BY DEF Scores
<1>2. Cardinality(Scoring') = Cardinality(Scoring) + 1
  <2> HIDE DEF PoolInv
  <2>1. StageType  BY DEF PoolInv
  <2>2. PICK x : x = "scoring"  OBVIOUS
  <2>3. stage' = [stage EXCEPT ![i] = x] /\ stage[i] /= "scoring" /\ x = "scoring"  BY <1>1, <2>2
  <2> QED  BY <2>1, <2>3, ScoringChanges
<1>3. call' = IF isAsync THEN [call EXCEPT ![i] = "open"] ELSE call
  BY DEF Scores
<1>4. StageType'
  <2>1. Timeout \in Nat  BY LoopConstants
  <2>2. outcome[i] = "none"  BY DEF StageType
  <2> QED  BY <1>1, <1>3, <2>1, <2>2 DEF StageType, Stages
<1>5. threads' = threads  BY DEF Scores, poolVars
<1>6. \A k \in Items \ {i} : stage'[k] = stage[k]  BY <1>1 DEF StageType
<1>7. stage'[i] = "scoring"  BY <1>1 DEF StageType
<1>8. \A n \in DOMAIN jobs : jobs[n].item /= i
  BY Queued DEF Pool, AllJobs
<1>9. \A n \in DOMAIN jobs : stage'[jobs[n].item] = stage[jobs[n].item]  BY <1>6, <1>8, Queued
<1>10. \A k \in Items : /\ Job("decode", k) \in threads => stage'[k] = "decoding"
                        /\ Job("score", k) \in threads  => stage'[k] \in {"scoring", "done"}
  BY <1>6 DEF Pool
<1>11. CASE isAsync
  <2>1. jobs' = jobs  BY <1>11 DEF Scores, poolVars
  <2>2. Pool'  BY <1>5, <1>9, <1>10, <2>1 DEF Pool
  <2>3. Running'  BY <1>3, <1>5, <1>6, <1>7, <1>11 DEF Running, StageType
  <2> QED  BY <1>2, <1>4, <1>6, <2>2, <2>3
<1>12. CASE ~isAsync
  <2>1. jobs' = Append(jobs, Job("score", i))  BY <1>12 DEF Scores
  <2>2. Job("score", i) \in AllJobs /\ Job("score", i).kind = "score" /\ Job("score", i).item = i
    BY DEF Job, AllJobs
  <2>3. /\ jobs' \in Seq(AllJobs) /\ DOMAIN jobs' = 1 .. Len(jobs) + 1 /\ DOMAIN jobs = 1 .. Len(jobs)
        /\ \A n \in DOMAIN jobs : jobs'[n] = jobs[n]
        /\ jobs'[Len(jobs) + 1] = Job("score", i)
    BY <2>1, <2>2, AppendProperties DEF Pool
  <2>4. \A n, m \in DOMAIN jobs' : jobs'[n] = jobs'[m] => n = m
    BY <1>8, <2>2, <2>3 DEF Pool
  <2>5. ASSUME NEW n \in DOMAIN jobs'
        PROVE  /\ jobs'[n] \notin threads
               /\ jobs'[n].kind = "decode" => stage'[jobs'[n].item] = "decoding"
               /\ jobs'[n].kind = "score"  => stage'[jobs'[n].item] = "scoring" /\ ~isAsync
    <3>1. CASE jobs'[n] = Job("score", i)
      <4>1. jobs'[n].kind = "score" /\ jobs'[n].item = i  BY <2>2, <3>1
      <4>2. Job("score", i) \notin threads  BY DEF Pool
      <4> QED  BY <1>7, <1>12, <3>1, <4>1, <4>2
    <3>2. CASE n \in DOMAIN jobs  BY <1>9, <2>3, <3>2 DEF Pool
    <3> QED  BY <2>3, <3>1, <3>2
  <2>6. Pool'  BY <1>5, <1>10, <2>3, <2>4, <2>5 DEF Pool
  <2>7. Running'  BY <1>3, <1>5, <1>6, <1>12 DEF Running
  <2> QED  BY <1>2, <1>4, <1>6, <2>6, <2>7
<1> QED  BY <1>4, <1>11, <1>12 DEF StageType

\* An item asks for a permit, and takes it or waits.
LEMMA EntersKeepsPool ==
  ASSUME PoolInv, NEW i \in Items, Enters(i)
  PROVE  PoolInv'
<1> USE DEF PoolInv
<1>1. stage[i] = "semaphore" /\ UNCHANGED <<isAsync, outcome, tries>>  BY DEF Enters, routerVars
<1>2. \A n \in DOMAIN semQueue : semQueue[n] /= i  BY <1>1, Queued DEF Permits
<1>3. CASE free > 0 /\ semQueue = <<>>
  <2>1. Scores(i) /\ free' = free - 1 /\ semQueue' = semQueue  BY <1>3 DEF Enters
  <2>2. /\ StageType' /\ Pool' /\ Running' /\ Cardinality(Scoring') = Cardinality(Scoring) + 1
        /\ \A k \in Items \ {i} : stage'[k] = stage[k]
    BY <1>1, <2>1, ScoresKeeps
  <2>3. Cardinality(Scoring) \in Nat
    <3>1. StageType /\ Scoring \subseteq Items  BY DEF Scoring
    <3> QED  BY <3>1, LoopConstants, FS_Subset, FS_CardinalityType
  <2>4. Permits'
    <3>1. \A n \in DOMAIN semQueue : stage'[semQueue[n]] = "queued"  BY <1>2, <2>2, Queued DEF Permits
    <3>2. free - 1 \in Nat /\ free - 1 + (Cardinality(Scoring) + 1) = MaxConcurrent
      BY <1>3, <2>3 DEF Permits
    <3> QED  BY <2>1, <2>2, <3>1, <3>2 DEF Permits
  <2> QED  BY <2>2, <2>4
<1>4. CASE ~(free > 0 /\ semQueue = <<>>)
  <2>1. /\ stage' = [stage EXCEPT ![i] = "queued"] /\ semQueue' = Append(semQueue, i)
        /\ UNCHANGED <<free, timer, jobs, threads, call>>
    BY <1>4 DEF Enters, poolVars
  <2>2. Scoring' = Scoring
    <3> HIDE DEF PoolInv
    <3>1. StageType  BY DEF PoolInv
    <3>2. PICK x : x = "queued"  OBVIOUS
    <3>3. stage' = [stage EXCEPT ![i] = x] /\ stage[i] /= "scoring" /\ x /= "scoring"  BY <1>1, <2>1, <3>2
    <3> QED  BY <3>1, <3>3, ScoringChanges
  <2>3. StageType'  BY <1>1, <2>1 DEF StageType, Stages
  <2>4. \A k \in Items \ {i} : stage'[k] = stage[k]  BY <2>1 DEF StageType
  <2>5. stage'[i] = "queued"  BY <2>1 DEF StageType
  <2>6. Permits'
    <3>1. /\ semQueue' \in Seq(Items) /\ DOMAIN semQueue' = 1 .. Len(semQueue) + 1
          /\ \A n \in DOMAIN semQueue : semQueue'[n] = semQueue[n]
          /\ semQueue'[Len(semQueue) + 1] = i
      BY <2>1, Queued, AppendProperties DEF Permits
    <3>2. \A n \in DOMAIN semQueue' : stage'[semQueue'[n]] = "queued"
      BY <1>2, <2>4, <2>5, <3>1, Queued DEF Permits
    <3>3. \A n, m \in DOMAIN semQueue' : semQueue'[n] = semQueue'[m] => n = m
      BY <1>2, <3>1, Queued DEF Permits
    <3> QED  BY <2>1, <2>2, <3>1, <3>2, <3>3 DEF Permits
  <2>7. Pool'
    <3>1. \A k \in Items : stage[k] \in {"decoding", "scoring", "done"} => stage'[k] = stage[k]
      BY <1>1, <2>4
    <3> HIDE DEF PoolInv
    <3> QED  BY <1>1, <2>1, <3>1, Queued DEF Pool, PoolInv
  <2>8. Running'  BY <1>1, <2>1, <2>4 DEF Running
  <2> QED  BY <2>3, <2>6, <2>7, <2>8
<1> QED  BY <1>3, <1>4

\* A permit goes to the first in the queue.
LEMMA WakesKeepsPool ==
  ASSUME PoolInv, Wakes
  PROVE  PoolInv'
<1> USE DEF PoolInv
<1> DEFINE i == Head(semQueue)
<1>1. /\ free > 0 /\ semQueue /= <<>> /\ free' = free - 1 /\ semQueue' = Tail(semQueue)
      /\ Scores(i) /\ UNCHANGED <<isAsync, outcome, tries>>
  BY DEF Wakes, routerVars
<1>2. /\ i \in Items /\ i = semQueue[1] /\ 1 \in DOMAIN semQueue
      /\ semQueue' \in Seq(Items) /\ DOMAIN semQueue' = 1 .. Len(semQueue) - 1
      /\ \A n \in DOMAIN semQueue' : n + 1 \in DOMAIN semQueue /\ semQueue'[n] = semQueue[n + 1]
  BY <1>1, Queued, HeadTailProperties DEF Permits
<1>3. stage[i] = "queued"  BY <1>2 DEF Permits
<1> HIDE DEF i
<1>4. /\ StageType' /\ Pool' /\ Running' /\ Cardinality(Scoring') = Cardinality(Scoring) + 1
      /\ \A k \in Items \ {i} : stage'[k] = stage[k]
  BY <1>1, <1>2, <1>3, ScoresKeeps
<1>5. Permits'
  <2>1. Cardinality(Scoring) \in Nat
    <3>1. Scoring \subseteq Items  BY DEF Scoring
    <3> QED  BY <3>1, LoopConstants, FS_Subset, FS_CardinalityType
  <2>2. free - 1 \in Nat /\ free - 1 + (Cardinality(Scoring) + 1) = MaxConcurrent
    BY <1>1, <2>1 DEF Permits
  <2>3. \A n \in DOMAIN semQueue' : semQueue'[n] /= i
    <3>1. ASSUME NEW n \in DOMAIN semQueue', semQueue[n + 1] = semQueue[1] PROVE FALSE
      <4>1. n + 1 = 1  BY <1>2, <3>1 DEF Permits
      <4>2. n \in Nat /\ n >= 1  BY <1>2, Queued
      <4> QED  BY <4>1, <4>2
    <3> QED  BY <1>2, <3>1
  <2>4. \A n \in DOMAIN semQueue' : stage'[semQueue'[n]] = "queued"
    BY <1>2, <1>4, <2>3, Queued DEF Permits
  <2>5. \A n, m \in DOMAIN semQueue' : semQueue'[n] = semQueue'[m] => n = m
    <3>1. ASSUME NEW n \in DOMAIN semQueue', NEW m \in DOMAIN semQueue', semQueue'[n] = semQueue'[m]
          PROVE  n = m
      <4>1. n + 1 = m + 1  BY <1>2, <3>1 DEF Permits
      <4>2. n \in Int /\ m \in Int  BY <1>2, Queued
      <4> QED  BY <4>1, <4>2
    <3> QED  BY <3>1
  <2> QED  BY <1>1, <1>2, <1>4, <2>2, <2>4, <2>5 DEF Permits
<1> QED  BY <1>4, <1>5

\* A scoring function is over, or is given up: its permit is free again.
LEMMA EndsKeeps ==
  ASSUME PoolInv, NEW i \in Items, stage[i] = "scoring",
         NEW result \in {"scored", "timeout", "error"}, Ends(i, result),
         UNCHANGED <<isAsync, tries, semQueue>>,
         call' \in [Items -> {"none", "open", "closed"}]
  PROVE  /\ StageType' /\ Permits'
         /\ stage'[i] = "done" /\ \A k \in Items \ {i} : stage'[k] = stage[k]
<1> USE DEF PoolInv
<1>1. /\ stage' = [stage EXCEPT ![i] = "done"] /\ outcome' = [outcome EXCEPT ![i] = result]
      /\ timer' = [timer EXCEPT ![i] = 0] /\ free' = free + 1
  BY DEF Ends
<1>2. stage'[i] = "done" /\ \A k \in Items \ {i} : stage'[k] = stage[k]  BY <1>1 DEF StageType
<1>3. Cardinality(Scoring') = Cardinality(Scoring) - 1 /\ Cardinality(Scoring) \in Nat
  <2> HIDE DEF PoolInv
  <2>1. StageType  BY DEF PoolInv
  <2>2. PICK x : x = "done"  OBVIOUS
  <2>3. stage' = [stage EXCEPT ![i] = x] /\ x /= "scoring"  BY <1>1, <2>2
  <2> QED  BY <2>1, <2>3, ScoringChanges
<1>4. StageType'  BY <1>1 DEF StageType, Stages
<1>5. Permits'
  <2>1. \A n \in DOMAIN semQueue : stage'[semQueue[n]] = "queued"  BY <1>2, Queued DEF Permits
  <2>2. free + 1 \in Nat /\ free + 1 + (Cardinality(Scoring) - 1) = MaxConcurrent
    BY <1>3 DEF Permits
  <2> QED  BY <1>1, <1>3, <2>1, <2>2 DEF Permits
<1> QED  BY <1>2, <1>4, <1>5

\* Fewer threads run.
LEMMA ThreadsLeave ==
  ASSUME Pool, NEW T \in SUBSET threads
  PROVE  IsFiniteSet(T) /\ Cardinality(T) <= Threads
<1>1. /\ IsFiniteSet(T) /\ Cardinality(T) <= Cardinality(threads)
      /\ Cardinality(T) \in Nat /\ Cardinality(threads) \in Nat
  BY FS_Subset, FS_CardinalityType DEF Pool
<1> QED  BY <1>1, LoopConstants DEF Pool

LEMMA TimesOutKeepsPool ==
  ASSUME PoolInv, NEW i \in Items, TimesOut(i)
  PROVE  PoolInv'
<1> USE DEF PoolInv
<1>1. /\ stage[i] = "scoring" /\ Ends(i, "timeout")
      /\ jobs' = RemoveFirst(jobs, Job("score", i))
      /\ call' = [call EXCEPT ![i] = StateOfCancelled(i)]
      /\ UNCHANGED <<isAsync, tries, semQueue, threads>>
  BY DEF TimesOut, routerVars
<1>2. StateOfCancelled(i) \in {"none", "open", "closed"}  BY DEF StateOfCancelled, StageType
<1>3. call' \in [Items -> {"none", "open", "closed"}]  BY <1>1, <1>2 DEF StageType
<1>4. /\ StageType' /\ Permits'
      /\ stage'[i] = "done" /\ \A k \in Items \ {i} : stage'[k] = stage[k]
  BY <1>1, <1>3, EndsKeeps
<1>5. Pool'
  <2>1. /\ jobs' \in Seq(AllJobs)
        /\ \A n \in DOMAIN jobs' : jobs'[n] /= Job("score", i) /\ \E k \in DOMAIN jobs : jobs'[n] = jobs[k]
        /\ \A n, m \in DOMAIN jobs' : jobs'[n] = jobs'[m] => n = m
    <3>1. jobs \in Seq(AllJobs) /\ \A n, m \in DOMAIN jobs : jobs[n] = jobs[m] => n = m  BY DEF Pool
    <3>2. PICK r : r = RemoveFirst(jobs, Job("score", i))  OBVIOUS
    <3>3. /\ r \in Seq(AllJobs)
          /\ \A n \in DOMAIN r : r[n] /= Job("score", i) /\ \E k \in DOMAIN jobs : r[n] = jobs[k]
          /\ \A n, m \in DOMAIN r : r[n] = r[m] => n = m
      BY <3>1, <3>2, WithoutOne
    <3> QED  BY <1>1, <3>2, <3>3
  <2>2. ASSUME NEW n \in DOMAIN jobs'
        PROVE  /\ jobs'[n] \notin threads
               /\ jobs'[n].kind = "decode" => stage'[jobs'[n].item] = "decoding"
               /\ jobs'[n].kind = "score"  => stage'[jobs'[n].item] = "scoring" /\ ~isAsync
    <3>1. PICK k \in DOMAIN jobs : jobs'[n] = jobs[k]  BY <2>1, <2>2
    <3>2. jobs[k] \in AllJobs /\ jobs[k].item \in Items /\ jobs[k] = Job(jobs[k].kind, jobs[k].item)
      BY Queued
    <3>3. jobs[k].kind \in {"decode", "score"}  BY <3>2 DEF AllJobs
    <3>4. jobs[k].item /= i  BY <1>1, <2>1, <2>2, <3>1, <3>2, <3>3 DEF Pool
    <3> QED  BY <1>4, <3>1, <3>2, <3>4 DEF Pool
  <2>3. \A k \in Items : /\ Job("decode", k) \in threads => stage'[k] = "decoding"
                         /\ Job("score", k) \in threads  => stage'[k] \in {"scoring", "done"}
    BY <1>1, <1>4 DEF Pool
  <2> QED  BY <1>1, <2>1, <2>2, <2>3 DEF Pool
<1>6. Running'
  <2>1. isAsync => call'[i] = "closed"  BY <1>1 DEF StageType, StateOfCancelled
  <2>2. ~isAsync => call' = call  BY <1>1 DEF StageType, StateOfCancelled
  <2>3. \A k \in Items \ {i} : call'[k] = call[k]  BY <1>1 DEF StageType
  <2> QED  BY <1>1, <1>4, <2>1, <2>2, <2>3 DEF Running
<1> QED  BY <1>4, <1>5, <1>6

\* A scoring function returns with the router's answer, or nobody waits for it.
LEMMA AnswersKeepsPool ==
  ASSUME PoolInv, NEW i \in Items, NEW result \in {"scored", "error"}, Answers(i, result)
  PROVE  PoolInv'
<1> USE DEF PoolInv
<1>1. UNCHANGED <<isAsync, semQueue, jobs, tries>>  BY DEF Answers
<1>2. CASE call[i] /= "open"
  <2>1. UNCHANGED <<call, threads, stage, outcome, timer, free>>  BY <1>2 DEF Answers
  <2> QED  BY <1>1, <2>1 DEF StageType, Permits, Pool, Running, Scoring
<1>3. CASE call[i] = "open"
  <2>1. /\ call' = [call EXCEPT ![i] = "closed"] /\ threads' = threads \ {Job("score", i)}
        /\ IF stage[i] = "scoring" THEN Ends(i, result)
                                   ELSE UNCHANGED <<stage, outcome, timer, free>>
    BY <1>3 DEF Answers, Returns
  <2>2. call' \in [Items -> {"none", "open", "closed"}] /\ call'[i] = "closed"
        /\ \A k \in Items \ {i} : call'[k] = call[k]
    BY <2>1 DEF StageType
  <2>3. /\ StageType' /\ Permits' /\ \A k \in Items \ {i} : stage'[k] = stage[k]
        /\ IF stage[i] = "scoring" THEN stage'[i] = "done" ELSE stage'[i] = stage[i]
    <3>1. CASE stage[i] = "scoring"
      <4>1. Ends(i, result)  BY <2>1, <3>1
      <4> QED  BY <1>1, <2>2, <3>1, <4>1, EndsKeeps
    <3>2. CASE stage[i] /= "scoring"
      <4>1. UNCHANGED <<stage, outcome, timer, free>>  BY <2>1, <3>2
      <4> QED  BY <1>1, <2>2, <3>2, <4>1 DEF StageType, Permits, Scoring
    <3> QED  BY <3>1, <3>2
  <2>4. \A n \in DOMAIN jobs : jobs[n].kind = "score" => jobs[n].item /= i
    <3>1. ASSUME NEW n \in DOMAIN jobs, jobs[n].kind = "score", jobs[n].item = i PROVE FALSE
      <4>1. ~isAsync /\ Job("score", i) \in threads  BY <1>3, <3>1 DEF Pool, Running
      <4>2. jobs[n] = Job("score", i)  BY <3>1, Queued
      <4> QED  BY <4>1, <4>2 DEF Pool
    <3> QED  BY <3>1
  <2>5. Pool'
    <3>1. threads' \subseteq AllJobs /\ IsFiniteSet(threads') /\ Cardinality(threads') <= Threads
      BY <2>1, ThreadsLeave DEF Pool
    <3>2. ASSUME NEW n \in DOMAIN jobs
          PROVE  /\ jobs[n] \notin threads'
                 /\ jobs[n].kind = "decode" => stage'[jobs[n].item] = "decoding"
                 /\ jobs[n].kind = "score"  => stage'[jobs[n].item] = "scoring" /\ ~isAsync
      BY <2>1, <2>3, <2>4, Queued DEF Pool
    <3>3. \A k \in Items : /\ Job("decode", k) \in threads' => stage'[k] = "decoding"
                           /\ Job("score", k) \in threads'  => stage'[k] \in {"scoring", "done"}
      BY <2>1, <2>3 DEF Pool
    <3> QED  BY <1>1, <3>1, <3>2, <3>3 DEF Pool
  <2>6. Running'
    <3>1. \A k \in Items \ {i} : Job("score", k) /= Job("score", i)  BY DEF Job
    <3> QED  BY <1>1, <2>1, <2>2, <2>3, <3>1 DEF Running
  <2> QED  BY <2>3, <2>5, <2>6
<1> QED  BY <1>2, <1>3

\* A thread takes the next job.
LEMMA TakesKeepsPool ==
  ASSUME PoolInv, ThreadTakes
  PROVE  PoolInv'
<1> USE DEF PoolInv
<1> DEFINE j == Head(jobs)
<1>1. /\ jobs /= <<>> /\ Cardinality(threads) < Threads
      /\ jobs' = Tail(jobs) /\ threads' = threads \union {j}
      /\ call' = IF j.kind = "score" THEN [call EXCEPT ![j.item] = "open"] ELSE call
      /\ UNCHANGED <<isAsync, stage, timer, outcome, semVars, tries>>
  BY DEF ThreadTakes, itemVars, routerVars
<1>2. /\ j \in AllJobs /\ j = jobs[1] /\ 1 \in DOMAIN jobs
      /\ jobs' \in Seq(AllJobs) /\ DOMAIN jobs' = 1 .. Len(jobs) - 1
      /\ \A n \in DOMAIN jobs' : n + 1 \in DOMAIN jobs /\ jobs'[n] = jobs[n + 1]
  BY <1>1, Queued, HeadTailProperties DEF Pool
<1>3. j.item \in Items /\ j = Job(j.kind, j.item) /\ j.kind \in {"decode", "score"}
  BY <1>2, Queued DEF AllJobs
<1>4. /\ j \notin threads
      /\ j.kind = "decode" => stage[j.item] = "decoding"
      /\ j.kind = "score"  => stage[j.item] = "scoring" /\ ~isAsync
  BY <1>2 DEF Pool
<1> HIDE DEF j
<1>5. StageType'  BY <1>1, <1>3 DEF StageType
<1>6. Permits'  BY <1>1 DEF Permits, semVars, Scoring
<1>7. Pool'
  <2>1. IsFiniteSet(threads') /\ Cardinality(threads') <= Threads
    <3>1. IsFiniteSet(threads) /\ Cardinality(threads) \in Nat  BY FS_CardinalityType DEF Pool
    <3>2. IsFiniteSet(threads \union {j}) /\ Cardinality(threads \union {j}) = Cardinality(threads) + 1
      BY <1>4, <3>1, FS_AddElement
    <3> QED  BY <1>1, <3>1, <3>2, LoopConstants
  <2>2. \A n, m \in DOMAIN jobs' : jobs'[n] = jobs'[m] => n = m
    <3>1. ASSUME NEW n \in DOMAIN jobs', NEW m \in DOMAIN jobs', jobs'[n] = jobs'[m] PROVE n = m
      <4>1. n + 1 = m + 1  BY <1>2, <3>1 DEF Pool
      <4>2. n \in Int /\ m \in Int  BY <1>2, Queued
      <4> QED  BY <4>1, <4>2
    <3> QED  BY <3>1
  <2>3. \A n \in DOMAIN jobs' : jobs'[n] /= j
    <3>1. ASSUME NEW n \in DOMAIN jobs', jobs[n + 1] = jobs[1] PROVE FALSE
      <4>1. n + 1 = 1  BY <1>2, <3>1 DEF Pool
      <4>2. n \in Nat /\ n >= 1  BY <1>2, Queued
      <4> QED  BY <4>1, <4>2
    <3> QED  BY <1>2, <3>1
  <2>4. \A n \in DOMAIN jobs' : /\ jobs'[n] \notin threads'
                                /\ jobs'[n].kind = "decode" => stage[jobs'[n].item] = "decoding"
                                /\ jobs'[n].kind = "score"  => stage[jobs'[n].item] = "scoring" /\ ~isAsync
    BY <1>1, <1>2, <2>3 DEF Pool
  <2>5. \A k \in Items : /\ Job("decode", k) \in threads' => stage[k] = "decoding"
                         /\ Job("score", k) \in threads'  => stage[k] \in {"scoring", "done"}
    <3>1. \A k \in Items, t \in {"decode", "score"} : Job(t, k) = j => k = j.item /\ t = j.kind
      BY <1>3 DEF Job
    <3> QED  BY <1>1, <1>3, <1>4, <3>1 DEF Pool
  <2> QED  BY <1>1, <1>2, <2>1, <2>2, <2>4, <2>5 DEF Pool
<1>8. Running'
  <2>1. CASE j.kind = "score"
    <3>1. \A k \in Items \ {j.item} : call'[k] = call[k]  BY <1>1, <1>3, <2>1 DEF StageType
    <3>2. Job("score", j.item) \in threads'  BY <1>1, <1>3, <2>1
    <3> QED  BY <1>1, <1>4, <2>1, <3>1, <3>2 DEF Running
  <2>2. CASE j.kind /= "score"  BY <1>1, <2>2 DEF Running
  <2> QED  BY <2>1, <2>2
<1> QED  BY <1>5, <1>6, <1>7, <1>8

LEMMA NextKeepsPool == PoolInv /\ [Next]_vars => PoolInv'
<1> SUFFICES ASSUME PoolInv, [Next]_vars PROVE PoolInv'  OBVIOUS
<1>1. CASE \E i \in Items : Submits(i)  BY <1>1, SubmitsKeepsPool
<1>2. CASE \E i \in Items : Decoded(i)  BY <1>2, DecodedKeepsPool
<1>3. CASE \E i \in Items : Bucket(i)  BY <1>3, BucketKeepsPool DEF Bucket
<1>4. CASE \E i \in Items : Enters(i)  BY <1>4, EntersKeepsPool
<1>5. CASE \E i \in Items : TimesOut(i)  BY <1>5, TimesOutKeepsPool
<1>6. CASE \E i \in Items : Router(i)
  <2> SUFFICES ASSUME NEW i \in Items, Router(i) PROVE PoolInv'  BY <1>6
  <2>1. CASE ServerAnswers(i)  BY <2>1, AnswersKeepsPool DEF ServerAnswers
  <2>2. CASE RouterGivesUp(i)  BY <2>2, AnswersKeepsPool DEF RouterGivesUp
  <2>3. CASE AttemptFails(i)
    <3>1. tries' = [tries EXCEPT ![i] = tries[i] + 1] /\ tries[i] \in Nat
          /\ UNCHANGED <<isAsync, itemVars, semVars, poolVars, call>>
      BY <2>3 DEF AttemptFails, PoolInv, StageType
    <3> QED  BY <3>1 DEF PoolInv, StageType, Permits, Pool, Running, Scoring, itemVars, semVars, poolVars
  <2> QED  BY <2>1, <2>2, <2>3 DEF Router
<1>7. CASE ThreadTakes  BY <1>7, TakesKeepsPool
<1>8. CASE Wakes  BY <1>8, WakesKeepsPool
<1>9. CASE Tick \/ (\E i \in Items : Routing(i)) \/ UNCHANGED vars
  <2>1. /\ UNCHANGED <<isAsync, stage, outcome, tries, call, free, semQueue, jobs, threads>>
        /\ timer' = timer \/ timer' = [i \in Items |-> IF timer[i] > 0 THEN timer[i] - 1 ELSE 0]
    BY <1>9 DEF Tick, Routing, Routes, vars, routerVars, semVars, poolVars, itemVars
  <2> QED  BY <2>1 DEF PoolInv, StageType, Permits, Pool, Running, Scoring
<1> QED  BY <1>1, <1>2, <1>3, <1>4, <1>5, <1>6, <1>7, <1>8, <1>9 DEF Next, BatchDone

\* What runs has a permit each, or a thread each.
LEMMA BoundedByPermits == PoolInv => CallsBounded
<1> SUFFICES ASSUME PoolInv PROVE CallsBounded  OBVIOUS
<1> USE DEF PoolInv
<1> DEFINE open == {i \in Items : call[i] = "open"}
<1>1. CASE isAsync
  <2>1. open \subseteq Scoring  BY <1>1 DEF Running, Scoring
  <2>2. IsFiniteSet(Scoring)
    <3>1. Scoring \subseteq Items  BY DEF Scoring
    <3> QED  BY <3>1, LoopConstants, FS_Subset
  <2>3. Cardinality(open) <= Cardinality(Scoring) /\ Cardinality(open) \in Nat
        /\ Cardinality(Scoring) \in Nat
    BY <2>1, <2>2, FS_Subset, FS_CardinalityType
  <2>4. Cardinality(Scoring) <= MaxConcurrent  BY <2>3, LoopConstants DEF Permits
  <2> QED  BY <1>1, <2>3, <2>4, LoopConstants DEF CallsBounded
<1>2. CASE ~isAsync
  <2> DEFINE f == [i \in open |-> Job("score", i)]
  <2>1. f \in Injection(open, threads)
    <3>1. f \in [open -> threads]  BY <1>2 DEF Running
    <3>2. \A i, k \in open : f[i] = f[k] => i = k  BY DEF Job
    <3> HIDE DEF f
    <3> QED  BY <3>1, <3>2 DEF Injection, IsInjective
  <2>2. IsFiniteSet(open)
    <3>1. open \subseteq Items  OBVIOUS
    <3> QED  BY <3>1, LoopConstants, FS_Subset
  <2>3. Cardinality(open) <= Cardinality(threads)  BY <2>1, FS_Injection DEF Pool
  <2>4. Cardinality(open) \in Nat /\ Cardinality(threads) \in Nat
    BY <2>2, FS_CardinalityType DEF Pool
  <2> QED  BY <1>2, <2>3, <2>4, LoopConstants DEF CallsBounded, Pool
<1> QED  BY <1>1, <1>2

\* Nobody holds more permits than there are, so that no more scoring functions
\* run than MaxConcurrent, or than threads if they cannot be stopped (limited.py,
\* the semaphore around wait_for); and every item with an outcome is done.
THEOREM ConsistentHolds == Spec => []Consistent
<1>1. LimitInv /\ RouterInv /\ PoolInv => Consistent
  <2> SUFFICES ASSUME LimitInv, RouterInv, PoolInv PROVE Consistent  OBVIOUS
  <2>1. free \in 0 .. MaxConcurrent
    <3>1. Scoring \subseteq Items  BY DEF Scoring
    <3>2. Cardinality(Scoring) \in Nat  BY <3>1, LoopConstants, FS_Subset, FS_CardinalityType
    <3> QED  BY <3>2, LoopConstants DEF PoolInv, Permits
  <2>2. TypeOK
    BY <2>1 DEF TypeOK, LimitInv, LimitType, RouterInv, PoolInv, StageType, Permits
  <2> QED  BY <2>2, BoundedByPermits DEF Consistent
<1> QED
  BY RewardLoopAssumption, InitLimitInv, NextKeeps, InitRouterInv, NextKeepsRouter,
     InitPoolInv, NextKeepsPool, <1>1, PTL DEF Spec
=============================================================================
