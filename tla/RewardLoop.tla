----------------------------- MODULE RewardLoop -----------------------------
(***************************************************************************)
(* Rewards of the items of one agent loop worker: the process of its       *)
(* RateLimitedRewardLoopManager (reward_loop/limited.py) with two token    *)
(* buckets, a semaphore and a timeout around the scoring function, and the *)
(* NaiveRouter (router/naive_router.py) that the function asks for a       *)
(* reward model server.                                                    *)
(***************************************************************************)
EXTENDS Integers, Sequences, FiniteSets, SequencesExt

CONSTANTS Items,               \* run_single calls, one for each item
          HasRpm, HasTpm,      \* the limits that are configured
          MaxTokens,           \* of the buckets, in what a tick adds
          Needs,               \* what an item takes from each bucket, likewise
          MaxConcurrent,
          Timeout,             \* in ticks
          Threads,             \* of the event loop's default executor
          Urls, MaxAttempts    \* of the router

Buckets == {"rpm", "tpm"}

ASSUME RewardLoopAssumption ==
  /\ {HasRpm, HasTpm} \subseteq BOOLEAN
  /\ {MaxTokens, Needs} \subseteq [Buckets -> Nat \ {0}]
  /\ {MaxConcurrent, Timeout, Threads, MaxAttempts} \subseteq Nat \ {0}
  /\ IsFiniteSet(Items) /\ Urls /= {} /\ Urls \intersect {"none", "over"} = {}

VARIABLES isAsync,    \* is_async_reward_score: compute_score is a coroutine
          stage,      \* stage[i]: where run_single stands
          sleep,      \* sleep[i]: ticks left of asyncio.sleep
          timer,      \* timer[i]: ticks left of asyncio.wait_for
          outcome,    \* outcome[i]: "none", "scored", "timeout" or "error"
          tokens, elapsed,     \* of the buckets; elapsed since last_update, until full
          free, semQueue,      \* the semaphore
          jobs, threads,       \* the executor: its queue, and what its threads run
          call,       \* call[i]: the scoring function, "none", "open" or "closed"
          requestCounts,       \* request_counts of the router
          at, tries,  \* the router's request for i: server, failed attempts
          failedOnce, \* servers for which a request was given up
          allowance   \* what a bucket that never lends could still give

itemVars   == <<stage, sleep, timer, outcome>>
bucketVars == <<tokens, elapsed, allowance>>
semVars    == <<free, semQueue>>
poolVars   == <<jobs, threads>>
routerVars == <<requestCounts, at, tries, failedOnce>>
vars == <<isAsync, itemVars, bucketVars, semVars, poolVars, call, routerVars>>

Least(a, b) == IF a < b THEN a ELSE b

Init ==
  /\ isAsync \in BOOLEAN
  /\ stage = [i \in Items |-> "generating"]
  /\ sleep = [i \in Items |-> 0] /\ timer = [i \in Items |-> 0]
  /\ outcome = [i \in Items |-> "none"]
  /\ tokens = MaxTokens /\ elapsed = [b \in Buckets |-> 0] /\ allowance = MaxTokens
  /\ free = MaxConcurrent /\ semQueue = <<>>
  /\ jobs = <<>> /\ threads = {}
  /\ call = [i \in Items |-> "none"]
  /\ requestCounts = [u \in Urls |-> 0] /\ failedOnce = {}
  /\ at = [i \in Items |-> "none"] /\ tries = [i \in Items |-> 0]
-----------------------------------------------------------------------------
(* The executor: decoding, and a scoring function that is not a coroutine. *)

Job(kind, i) == [kind |-> kind, item |-> i]

\* The item's agent loop has ended; compute_score.remote, and the decoding.
Submits(i) ==
  /\ stage[i] = "generating"
  /\ stage' = [stage EXCEPT ![i] = "decoding"]
  /\ jobs' = Append(jobs, Job("decode", i))
  /\ UNCHANGED <<isAsync, sleep, timer, outcome, bucketVars, semVars, threads, call, routerVars>>

ThreadTakes ==
  /\ jobs /= <<>> /\ Cardinality(threads) < Threads
  /\ jobs' = Tail(jobs) /\ threads' = threads \union {Head(jobs)}
  /\ call' = IF Head(jobs).kind = "score" THEN [call EXCEPT ![Head(jobs).item] = "open"] ELSE call
  /\ UNCHANGED <<isAsync, itemVars, bucketVars, semVars, routerVars>>

AfterDecode == IF HasRpm THEN "rpm" ELSE IF HasTpm THEN "tpm" ELSE "semaphore"

Decoded(i) ==
  /\ Job("decode", i) \in threads
  /\ threads' = threads \ {Job("decode", i)}
  /\ stage' = [stage EXCEPT ![i] = AfterDecode]
  /\ UNCHANGED <<isAsync, sleep, timer, outcome, bucketVars, semVars, jobs, call, routerVars>>
-----------------------------------------------------------------------------
(* AsyncTokenBucket.acquire.  Nothing is awaited while its lock is held.   *)

\* The stage of a large request: the tokens are taken, the sleep is not over.
Paid(b) == IF b = "rpm" THEN "paid rpm" ELSE "paid tpm"
BucketStages == Buckets \union {Paid(b) : b \in Buckets}

Refilled(b) == Least(MaxTokens[b], tokens[b] + elapsed[b])

\* Mutant: last_update moves only when tokens are taken.
ElapsedAfter_Forgotten(b, waits) == IF waits THEN elapsed[b] ELSE 0
ElapsedAfter(b, waits) == 0

\* Mutant: a request waits for more than the bucket can hold.
IsLarge_Never(b) == FALSE
IsLarge(b) == Needs[b] > MaxTokens[b]

AfterBucket(b) == IF b = "rpm" /\ HasTpm THEN "tpm" ELSE "semaphore"

\* acquire returns.
Granted(i, b) ==
  /\ stage' = [stage EXCEPT ![i] = AfterBucket(b)]
  /\ allowance' = [allowance EXCEPT ![b] = @ - Needs[b]]

\* Takes the lock: the tokens are there, or the sleep for the missing ones.  A
\* large request takes them in advance.
Acquires(i, b) ==
  LET missing == Needs[b] - Refilled(b)
      waits   == missing > 0
      takes   == IsLarge(b) \/ ~waits
  IN  /\ stage[i] = b /\ sleep[i] = 0
      /\ tokens' = [tokens EXCEPT ![b] = Refilled(b) - IF takes THEN Needs[b] ELSE 0]
      /\ elapsed' = [elapsed EXCEPT ![b] = ElapsedAfter(b, waits)]
      /\ IF waits
         THEN /\ sleep' = [sleep EXCEPT ![i] = missing]
              /\ stage' = IF takes THEN [stage EXCEPT ![i] = Paid(b)] ELSE stage
              /\ UNCHANGED allowance
         ELSE Granted(i, b) /\ UNCHANGED sleep
      /\ UNCHANGED <<isAsync, timer, outcome, semVars, poolVars, call, routerVars>>

\* The sleep of a large request is over.
Repaid(i, b) ==
  /\ stage[i] = Paid(b) /\ sleep[i] = 0
  /\ Granted(i, b)
  /\ UNCHANGED <<isAsync, sleep, timer, outcome, tokens, elapsed, semVars, poolVars, call, routerVars>>
-----------------------------------------------------------------------------
(* The semaphore, and scoring under wait_for.                              *)

\* _compute_reward starts, with the timeout: a coroutine runs at once, a plain
\* function is queued for a thread.
Scores(i) ==
  /\ stage' = [stage EXCEPT ![i] = "scoring"]
  /\ timer' = [timer EXCEPT ![i] = Timeout]
  /\ IF isAsync THEN call' = [call EXCEPT ![i] = "open"] /\ UNCHANGED poolVars
                ELSE jobs' = Append(jobs, Job("score", i)) /\ UNCHANGED <<threads, call>>

Enters(i) ==
  /\ stage[i] = "semaphore"
  /\ IF free > 0 /\ semQueue = <<>>
     THEN Scores(i) /\ free' = free - 1 /\ UNCHANGED semQueue
     ELSE /\ stage' = [stage EXCEPT ![i] = "queued"]
          /\ semQueue' = Append(semQueue, i)
          /\ UNCHANGED <<free, timer, poolVars, call>>
  /\ UNCHANGED <<isAsync, sleep, outcome, bucketVars, routerVars>>

\* A permit goes to whoever has waited longest.
Wakes ==
  /\ free > 0 /\ semQueue /= <<>>
  /\ free' = free - 1 /\ semQueue' = Tail(semQueue)
  /\ Scores(Head(semQueue))
  /\ UNCHANGED <<isAsync, sleep, outcome, bucketVars, routerVars>>

\* async with: the permit is returned whatever the outcome.
Ends(i, result) ==
  /\ stage' = [stage EXCEPT ![i] = "done"]
  /\ outcome' = [outcome EXCEPT ![i] = result]
  /\ timer' = [timer EXCEPT ![i] = 0]
  /\ free' = free + 1

\* Mutant: wait_for shielded from cancelling the coroutine.
StateOfCancelled_GoesOn(i) == call[i]
\* Cancelling: a coroutine stops, a job leaves the queue, a thread goes on.
StateOfCancelled(i) == IF isAsync THEN "closed" ELSE call[i]

TimesOut(i) ==
  /\ stage[i] = "scoring" /\ timer[i] = 0
  /\ Ends(i, "timeout")
  /\ jobs' = RemoveFirst(jobs, Job("score", i))
  /\ call' = [call EXCEPT ![i] = StateOfCancelled(i)]
  /\ UNCHANGED <<isAsync, sleep, bucketVars, semQueue, threads, routerVars>>

\* The scoring function returns or raises, with what the router has answered;
\* nobody waits for the one that was given up.
Returns(i, result) ==
  /\ call[i] = "open"
  /\ call' = [call EXCEPT ![i] = "closed"]
  /\ threads' = threads \ {Job("score", i)}
  /\ IF stage[i] = "scoring" THEN Ends(i, result)
                             ELSE UNCHANGED <<stage, outcome, timer, free>>

\* A turn of the event loop takes no time: time passes when nobody's sleep and
\* nobody's timeout is over.
Tick ==
  /\ \E i \in Items : stage[i] /= "done"
  /\ \A i \in Items : /\ sleep[i] = 0 => stage[i] \notin BucketStages
                      /\ timer[i] = 0 => stage[i] /= "scoring"
  /\ sleep' = [i \in Items |-> IF sleep[i] > 0 THEN sleep[i] - 1 ELSE 0]
  /\ timer' = [i \in Items |-> IF timer[i] > 0 THEN timer[i] - 1 ELSE 0]
  /\ elapsed' = [b \in Buckets |-> Least(elapsed[b] + 1, MaxTokens[b] - tokens[b])]
  /\ allowance' = [b \in Buckets |->
        LET most == IF Needs[b] > MaxTokens[b] THEN Needs[b] ELSE MaxTokens[b]
        IN  Least(allowance[b] + 1, most)]
  /\ UNCHANGED <<isAsync, stage, outcome, tokens, semVars, poolVars, call, routerVars>>
-----------------------------------------------------------------------------
(* NaiveRouter._make_async_request.                                        *)

\* _select_worker: one with the fewest requests.
Routes(i, u) ==
  /\ call[i] = "open" /\ at[i] = "none"
  /\ \A v \in Urls : requestCounts[u] <= requestCounts[v]
  /\ at' = [at EXCEPT ![i] = u]
  /\ requestCounts' = [requestCounts EXCEPT ![u] = @ + 1]
  /\ UNCHANGED <<isAsync, itemVars, bucketVars, semVars, poolVars, call, tries, failedOnce>>

\* _release_worker
Released(u) == [requestCounts EXCEPT ![u] = IF @ > 0 THEN @ - 1 ELSE 0]

\* The request is over; the client may have gone.
Answers(i, result) ==
  /\ at' = [at EXCEPT ![i] = "over"]
  /\ IF call[i] = "open" THEN Returns(i, result)
                         ELSE UNCHANGED <<call, threads, stage, outcome, timer, free>>
  /\ UNCHANGED <<isAsync, sleep, bucketVars, semQueue, jobs, tries>>

ServerAnswers(i) ==
  /\ at[i] \in Urls
  /\ requestCounts' = Released(at[i])
  /\ Answers(i, "scored")
  /\ UNCHANGED failedOnce

\* Mutant: every failed attempt releases the server.
CountsAfterFailure_Released(u) == Released(u)
\* No answer, or no connection: the same server again, until MaxAttempts.
CountsAfterFailure(u) == requestCounts

AttemptFails(i) ==
  /\ at[i] \in Urls /\ tries[i] + 1 < MaxAttempts
  /\ tries' = [tries EXCEPT ![i] = @ + 1]
  /\ requestCounts' = CountsAfterFailure(at[i])
  /\ UNCHANGED <<isAsync, itemVars, bucketVars, semVars, poolVars, call, at, failedOnce>>

\* The last attempt fails, or the server answers with an error status.
RouterGivesUp(i) ==
  /\ at[i] \in Urls
  /\ failedOnce' = failedOnce \union {at[i]}
  /\ Answers(i, "error")
  /\ UNCHANGED requestCounts
-----------------------------------------------------------------------------
BatchDone == (\A i \in Items : stage[i] = "done") /\ UNCHANGED vars

Bucket(i)  == \E b \in Buckets : Acquires(i, b) \/ Repaid(i, b)
Router(i)  == ServerAnswers(i) \/ AttemptFails(i) \/ RouterGivesUp(i)
Routing(i) == \E u \in Urls : Routes(i, u)

Next == \/ \E i \in Items : \/ Submits(i) \/ Decoded(i) \/ Bucket(i) \/ Enters(i)
                            \/ TimesOut(i) \/ Routing(i) \/ Router(i)
        \/ ThreadTakes \/ Wakes \/ Tick \/ BatchDone

Spec == Init /\ [][Next]_vars

\* Time passes and the process runs.  A reward model server may never answer:
\* the router sets no timeout for it.  Only a plain scoring function, which
\* cannot be stopped, is taken to return.
FairSpec ==
  /\ Spec
  /\ WF_vars(ThreadTakes) /\ WF_vars(Wakes) /\ WF_vars(Tick)
  /\ \A i \in Items :
       /\ WF_vars(Submits(i)) /\ WF_vars(Decoded(i)) /\ WF_vars(Bucket(i))
       /\ WF_vars(Enters(i)) /\ WF_vars(TimesOut(i))
       /\ WF_vars(~isAsync /\ (Routing(i) \/ Router(i)))
-----------------------------------------------------------------------------
Stages == BucketStages \union
            {"generating", "decoding", "semaphore", "queued", "scoring", "done"}

InFlight(u) == Cardinality({i \in Items : at[i] = u})

\* Every item is at one stage of run_single and has an outcome when it is over;
\* the router counts every request it has under way.
TypeOK ==
  /\ isAsync \in BOOLEAN /\ stage \in [Items -> Stages]
  /\ {sleep, timer, tries} \subseteq [Items -> Nat]
  /\ \A i \in Items : outcome[i] = "none" <=> stage[i] /= "done"
  /\ tokens \in [Buckets -> Int] /\ allowance \in [Buckets -> Int]
  /\ elapsed \in [Buckets -> Nat] /\ free \in 0 .. MaxConcurrent
  /\ semQueue \in Seq(Items)
  /\ call \in [Items -> {"none", "open", "closed"}]
  /\ requestCounts \in [Urls -> Nat] /\ \A u \in Urls : InFlight(u) <= requestCounts[u]
  /\ failedOnce \subseteq Urls
  /\ at \in [Items -> Urls \union {"none", "over"}]

\* In any stretch of time a bucket lets through what it holds (or one request,
\* if that is more) and what its rate adds: sleeps, lent tokens and items that
\* ask again included (limited.py, "Algorithm Details").
Conforms == \A b \in Buckets : allowance[b] >= 0

\* "Limits the number of simultaneous API requests": no more scoring functions
\* than MaxConcurrent run; if they are plain functions, those given up for their
\* timeout go on, and only the threads bound them.
CallsBounded == Cardinality({i \in Items : call[i] = "open"})
                  <= IF isAsync THEN MaxConcurrent ELSE Threads

\* The state has its type, and the scoring functions are bounded.
Consistent == TypeOK /\ CallsBounded

\* "Select the least-loaded worker": a server that is chosen has no more requests
\* under way than any server that has never failed one.
LeastLoaded == [][\A i \in Items, u \in Urls : at[i] = "none" /\ at'[i] = u =>
                     \A v \in Urls \ failedOnce : InFlight(u) <= InFlight(v)]_vars

\* Every item of the batch gets its reward, in spite of lent tokens, timeouts
\* and servers that never answer.
AllRewarded == <>(\A i \in Items : stage[i] = "done")
=============================================================================
