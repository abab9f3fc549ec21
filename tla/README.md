# A TLA+ model of ActGuide-RL

ActGuide-RL is a fork of the verl reinforcement-learning library: about 114 000
lines of Python, most of them numerical (models, workers, losses) and most of the
rest configuration and data handling.  This directory models its *control*: the
processes that pass samples, weights, requests and answers to each other.  The
order of the work was the order of risk: first the fully asynchronous policy
(`recipe/fully_async_policy`), where five kinds of process run concurrently, then
the components a rollout goes through - agents, tools, rewards, the guided training
step - and what happens when the job dies.

Run a model with `tlc -config <run>.cfg <Module>.tla` and the proofs with
`tlapm <Module>Proofs.tla`.  `PROJECT.json` lists every run with its module,
the source lines of every definition, and one mutation of the model per property
that makes the property fail.

## 1. Inventory

### The fully asynchronous policy (`recipe/fully_async_policy`)

| part | state it keeps | operations | talks to |
|---|---|---|---|
| `MessageQueue` actor (`message_queue.py`) | bounded deque of samples, deque of validation results, version, statistics, a lock and a consumer condition | `put_sample`, `get_sample`, `put_validate`, `get_validate`, `update_param_version`, `clear_queue`, `shutdown` | called by all others |
| `FullyAsyncRollouter` actor (`fully_async_rollouter.py`) | `pending_queue`, `cancel_queue`, `active_tasks`, `staleness_samples`, `paused`, `running`, `monitor_loop_trigger`, its version, one lock with a condition | coroutines `_streaming_generation_main`, `_feed_samples`, `_processor_worker`, `_async_monitor_loop`, one task per sample; remote calls `pause`, `resume`, `update_param_version` | agent loops, message queue |
| `FullyAsyncTrainer` actor (`fully_async_trainer.py`) | batch, local trigger step, version, version of the last checkpoint | `fit` | message queue, synchroniser |
| `ParameterSynchronizer` (`param_sync.py`) | the references of the last `update_param_version` and `resume` | `sync_weights`, `wait_last_valid`, `rollouter_save_checkpoint` | rollouter, both worker groups |
| agent loops and LLM servers (`agent_loop/`, `vllm_rollout/`) | paused flags, cancellation events, one output per request | `generate_for_partial`, `cancel`, `resume`, `reset_prefix_cache` | vLLM engine |
| task runner (`fully_async_main.py`) | futures of the two `fit()` calls | start, wait for both ends, clear the queue | all |

Hard behaviour: seven kinds of coroutine interleave on one event loop and share
flags that are tested before an `await` and used after it; the trainer runs on
while the last two calls of a synchronisation are still under way; interrupted
generations come back; the end of the stream travels through two queues.

### The rest of the repository

| part | where | state it keeps | hard behaviour |
|---|---|---|---|
| adaptive guidance | `verl/trainer/ppo/adaptive_guidance.py` | brackets of a batch | a bounded binary search per prompt for the fewest actions of the reference that give reward, on random evidence |
| guided training step | `verl/trainer/ppo/ray_trainer.py`, `verl/workers/actor/dp_actor.py` | a table of rows | permuted, selected, repeated, generated again, written back and cut up, each time by position |
| sequence balancing | `verl/utils/seqlen_balancing.py` | none | Karmarkar-Karp with ties and empty sets; the way back from micro-batches |
| checkpoints | `fully_async_trainer.py`, `fully_async_rollouter.py`, `verl/utils/checkpoint` | directories, a tracker file, two counters, a dataloader | a crash between any two steps of a save; what a restart loses and repeats |
| reward loop with limits | `verl/experimental/reward/reward_loop/limited.py` | two token buckets, a semaphore, an executor | lent tokens, waiters that come back, a timeout that cannot stop a thread |
| reward model router | `verl/experimental/reward/router/naive_router.py` | requests per server | retries at the same server, clients that have gone |
| tool server | `tool_server/api_server_deepresearch_redis.py` | a cache per process, Redis, permits, a dump file | two cache levels, negative entries, deadlines with retries, a leader that dies |
| tool agent loop | `verl/experimental/agent_loop/tool_agent_loop.py` | the turns of an agent | a state machine over turns with several length limits |
| agent loop manager | `verl/experimental/agent_loop/agent_loop.py` | a bounded LRU map of sessions | least-loaded server choice with sticky sessions |
| tools and search proxy | `verl/tools`, `searchagent_scripts/proxy` | none | remote calls with retries |
| one-step-off policy | `recipe/one_step_off_policy`, `RayPPOTrainer._save_checkpoint` and `_load_checkpoint` | the batch ahead, the weights of actor and rollout workers, a checkpoint | a batch drawn before the checkpoint is saved; weights that are sent only with a generation; rewards that come back in another order |
| transfer queue | `recipe/transfer_queue` | none of its own | client of an external service |
| single controller | `verl/single_controller` | worker groups | dispatch |
| models, engines, losses, datasets, rewards | `verl/models`, `verl/workers`, `verl/trainer/ppo/core_algos.py`, ... | | numerical code |

How they meet: agent loops call the tool server and, at the end of a trajectory, the
reward loop, which asks the router; the trainer takes their output as rows, balances
them, replaces some, and updates the actor; a checkpoint is taken between versions.

### What makes each component correct

- **Message queue**: every put is consumed, dropped, cleared or still there; order
  is kept; the bound holds; no consumer sleeps on a queue that has a sample for it
  or is closed.
- **Rollouter**: a sample is in one place at a time; the rollout is never further
  ahead of the training than `max_required_samples`, and one; nothing generates while the
  weights are replaced; whatever is paused, interrupted or raises, `fit` returns.
- **Trainer and synchroniser**: the staleness of a batch is bounded (and zero with
  `staleness_threshold = 0`); the versions that four processes hold stay in step;
  no validation result is lost.
- **Checkpoints**: wherever the job dies it can be started again from what the tracker
  names, loses only the samples in flight, trains on none twice, counts alike in both
  actors, and ends.
- **One-step-off policy**: a batch is trained exactly one update after the weights that
  generated it; a restart costs one batch; the last step is saved.
- **Partial agents**: an interruption does not change what an agent does.
- **Adaptive guidance**: the bracket of the bisection never loses the answer, and the
  lengths it returns reach the rows of their prompts.
- **Guided training step**: a row stays one rollout of one prompt, and a group the
  rollouts of one prompt, through every permutation, selection and write-back; the
  update uses every row once, all with one weight, against the right references.
- **Balancing**: ranks get equal numbers of rows of about equal work; no micro-batch is
  empty, on any rank.
- **Tool server**: an answer is about what was asked at its place; a page is not called
  unreadable for longer than the lifetime of a failure or after a later success; permits
  come back; the dump file is whole; accepted requests end.
- **Reward loop and router**: no bucket gives more than its rate in any window, nobody
  starves in it, the calls in flight are bounded, servers share the load, every item
  gets a reward.

## 2. Modules

| module | models | state and actions |
|---|---|---|
| `MessageQueue` | the actor `message_queue.py` | one action per method; `get_sample` is three, as it sleeps, takes or returns `None`; `waiters` and `notified` are the consumer condition |
| `MessageQueueProofs` | | the invariants of `MessageQueue`, proved |
| `AsyncioLoop` | asyncio: run queue, `Lock`, wake-ups | operators the Rollouter is written with; external code, modelled from how it is used |
| `FullyAsyncShared` | configuration, the queue actor as an instance of `MessageQueue`, remote calls in flight | |
| `Rollouter` | `fully_async_rollouter.py` with the manager and servers it drives | one action per stretch of a coroutine between two suspension points |
| `Trainer` | `fully_async_trainer.py` and `param_sync.py` | one program counter; both are blocking actors |
| `FullyAsync` | composition and task runner | the properties of the whole |
| `FullyAsyncInvariants` | | the inductive invariants of `FullyAsync`, one for each part of the system |
| `FullyAsyncProofs` | | sixteen theorems about `FullyAsync`, its refinement of `Pipeline` among them |
| `OneStepOff` | `one_step_off_policy/ray_trainer.py` with the checkpoints it inherits | one action per stretch of `fit` between two waits, one for the rollout workers, stop and start |
| `MCAsyncRecipes` | | two settings of `FullyAsync` and `OneStepOff` side by side, and their refinement mappings |
| `AsyncRecipesProofs` | | the invariants of `MCAsyncRecipes`: of the one-step-off policy with its refinement of `Pipeline`, and of the two settings of `FullyAsync` from the theorems about it |
| `Pipeline` | nothing: the abstract specification that `FullyAsync` and `OneStepOff` implement | begin, give, drop, update |
| `Checkpointing` | save, crash and restart of the same job, the FSDP checkpoint managers, the tracker file | one action per step of a save that a crash can fall behind; everything between the dataloader and the trainer is one set, which a sample leaves by being trained on, by a crash, or by being lost: dropped from the full queue, swallowed by the gather of `pause()` or left behind by a stream that broke |
| `CheckpointingProofs` | | the three safety properties of `Checkpointing`, proved |
| `PartialAgent`, `MCPartialAgent` | `partial_tool_agent_loop.py`, the tool states of `tool_agent_loop.py`, `vllm_async_server.py`, the manager's cancel and resume | one action per state handler of an agent, per answer of the server, per message of the manager |
| `PartialAgentProofs` | | the three safety properties of `PartialAgent`, proved |
| `GuidanceSearch` | `AdaptiveGuidanceSearcher.search` | one action per rollout of a probe step, per update of the bounds, for the return |
| `GuidanceProofs` | | four theorems about `GuidanceSearch` and four about `AdaptiveStep` |
| `Balancing` | `seqlen_balancing.py` and `_balance_batch` | operators only: the differencing method as a recursive function over sets of states |
| `GuidedStep` | a step of `RayPPOTrainer.fit` from the rollout on, and `DataParallelPPOActor` | one action per phase; permutations and micro-batches are those of `Balancing` |
| `AdaptiveStep`, `MCGuidedStep` | the composition of `GuidanceSearch` and `GuidedStep` | with adaptive guidance the step waits for the search, in mode `guided` for all prompts before they are rolled out, in mode `selective` for the hard ones before they are rolled out again; the rollouts are of the policy the search has probed |
| `ToolServer`, `MCToolServer` | `api_server_deepresearch_redis.py` | one action per turn of a worker's event loop, between HTTP requests, or between two Redis commands of one turn where they may fail apart; threads of the dump; faults |
| `ToolServerProofs` | | the four safety properties of `ToolServer`, proved |
| `RewardLoop`, `MCRewardLoop` | `limited.py`, `naive_router.py` | one action per turn of the event loop and per job of the executor |
| `RewardLoopProofs` | | three theorems about `RewardLoop` |

`Rollouter` and `Trainer` share the variables of `FullyAsyncShared`; the Trainer
calls `MQ!GetSample` and `MQ!GetValidate`, the Rollouter `MQ!PutSample` and
`MQ!PutValidate`, and the synchroniser moves `rpc[c]` from `"idle"` to `"sent"` where
the code issues the remote call `c` to the Rollouter, which moves it on to
`"running"` and `"done"`. `PartialAgent` looks inside what the Rollouter
sees as one generation: its `Gather`, `StartSync` and `EndSync` are the `pause` and
`resume` of the Rollouter seen from below. `Checkpointing` looks at the same job from
further away: a sample is drawn, in flight or trained on. `OneStepOff` is the other recipe
that generates ahead; it shares no state with `FullyAsync`, only the promise: both are
mapped to `Pipeline`. Its driver issues the weight transfer and waits for it, so the
transfer is part of the action that launches a generation; only the generation runs beside
the driver, and a validation waits behind it in the queue of the rollout workers.

### How the code is rendered

- A coroutine runs from one `await` that may suspend to the next without being
  disturbed, which is exactly what asyncio gives; an `await` that completes without
  suspending (a free lock, a queue with room) is not a point of interleaving and is
  not made one. `async with self.lock` is `Acquire`; the lock is FIFO, and the owner of
  a released lock is the first waiter.
- Where asyncio takes two turns of the loop to resume a coroutine (a future's
  callback that schedules the task) the model takes one.
- Samples are numbered in the order of the dataset; a sample has no content. "DONE" in
  `pending_queue` and `None` in the message queue are the number after the last.
- `staleness_threshold` is the fraction `StaleNum / StaleDen`, so that the `int()` of
  `set_max_required_samples` is a division of integers.
- `done_tasks` is read in a loop that may run before anything was assigned to it
  (`fully_async_rollouter.py:433-440`); `doneBound` records the assignment and the
  processor crashes without it. The crash takes as many samples generated at a
  time as a synchronisation takes, and more of them than `pending_queue` (128 places) holds: then the
  processor can be kept waiting for the feed while the trainer is given the samples of a
  version and `pause()` holds the lock and gathers the tasks, never having waited for a
  task itself, and finds neither tasks nor `done_tasks` when it has the lock. TLC finds
  it with three slots, one place, four samples, one sample per version and a `staleness_threshold` of 2 (no run is
  kept for it), and `ProcessorSafeHolds` proves that it cannot happen where one of the two conditions fails and nothing
  raises; `partial` checks, where both hold, that the job ends all the same.
- The language model is an environment. In `PartialAgent` it writes one of a set of
  scripts, token by token, so that an interruption can fall anywhere; in
  `GuidanceSearch` it is a monotone policy, given by the first length with which it may
  succeed and the first with which it surely does, so that rollouts between the two
  are random, which is what several rollouts per probe are for.
- `event` in `PartialAgent` stands for the entries of a request in `cancel_event` and
  `req_output`; only the key survives what the code leaves there.
- A row of `GuidedStep` is a record of the prompt it was generated for, the hints, the
  reward and the length. Its lengths are given, as they decide every permutation; its
  rewards are arbitrary. A gradient is a set of terms: which log-probability, against
  which, in which optimizer step, with which weight. Micro-batches with the same number
  of rows give the same weight, so a term need not say in which it was.
- Time in `ToolServer` and `RewardLoop` is discrete. In `RewardLoop` a tick is what a
  bucket's rate adds as one unit, a turn of the event loop takes no time, and
  `loop.time() - last_update` is `elapsed`, capped where more adds nothing.
- In `ToolServer` a Redis command takes no time. One that is alone in a turn belongs to
  it; storing a page and deleting its earlier failure are two, with an error path each, and
  Redis may stop or the worker die between them. What a worker
  fetches is not distinguished by version, so an entry is its key, its end of life and
  whether a file brought it.
- Crashes: a worker of the tool server loses its cache, permits and requests; the fully
  async job loses all but the disk. Ray restarts nothing in this code, so a job that
  dies is started again as a whole.

## 3. Runs

Every cfg is at the size where a larger one asks nothing new of the code: two samples
ahead make an order, a bound of two makes a full queue, and three synchronisations
make one that starts while the calls of the last are under way.

| run | configuration | what it shows |
|---|---|---|
| `message_queue` | two consumers, two places, four puts | nothing is lost uncounted, doubled or reordered, the bound holds, no wake-up is lost, and a shutdown releases everyone |
| `async_recipes` | fully async: five samples, one per version with `staleness_threshold = 1` and one slot, or four with two local steps per version with threshold 0 and two slots. One-step-off: four batches, one or two epochs, warm-up, two stops, one failure of the dataloader | each sample is in one place, and all are delivered but what the full queue drops, at most one a version; the lag of a batch is bounded, zero when synchronous; the README's rollout number and the pause hold when synchronous; versions stay in step; validation results all reach the log; one-step-off trains exactly one update behind, a restart costs one batch, the last step is saved; both recipes implement `Pipeline` |
| `partial` | four samples, partial rollout, one generation may raise, one place in `pending_queue` | servers that refuse and interrupt keep the transfer quiet; the overrun is one sample; the job ends, or the rollout has starved itself |
| `partial_agent` | two agents, two synchronisations, scripts that end in each of the ways | interruptions are invisible in the result, nothing is left on the server, the agents end |
| `guided_step` | three prompts with 4, 1 and 0 actions, two probe steps, two rollouts each, two ranks, four sets of lengths; all prompts or the hard ones (`selective`) guided, by a fixed share or by the search, and the reward gate | bounds move on evidence only and the result is optimal where the bracket is closed; the hints reach their prompts; rows and groups stay aligned; ranks are balanced and micro-batches filled; the update is fair |
| `tool_server` | two workers, two requests: for a query and a batch of two that has it, or for one page twice; one fault | permits, answers, failures and the dump file are right, and every accepted request is answered, or lost with its worker |
| `checkpointing` | two samples, two epochs, four steps, two per version, two in flight, two crashes, one sample lost by the running pipeline; with and without critic; one or two checkpoints kept | restartable, a restart loses only what was in flight, counters agree, the job ends |
| `reward_loop` | three items, both limits, token need above what the bucket holds, one permit, two threads, two servers, both kinds of scoring function | the rate is kept in every window, calls are bounded, the least loaded server is taken, every item ends |

Four runs end in a violation, each a place where the code does not do what its
documentation says:

| run | what happens |
|---|---|
| `unpaused` | the monitor loop decides before it has the lock and undoes the pause of a synchronisation; a new generation starts during the weight transfer |
| `starved` | the samples that pause the rollouter are those it would continue with: all that `staleness_samples` counts are interrupted and lie in `cancel_queue`, the rollouter waits for the next version, the trainer for one of them |
| `split_call` | a tool call cut in two by an interruption is not recognised, as the parser gets the last segment only |
| `gate_balanced` | with `trainer.balance_batch` (the default) the reward gate compares a row with the teacher's reward for another prompt |

Three more places are in the model, with no run of their own: the crash of the processor on
`done_tasks` (section 2); the search, which returns the lower bound of a bracket it had no
steps to close, with `ceil(log2(max_actions))` steps - the rule of
`multiturn_grpo_actguide.yaml:28` - that of a prompt with four actions, when two and one are
enough and none is not; and selective guidance with a fixed share, which ends the step with
an unassigned `k` (`ray_trainer.py:1217`, `GuidanceRaises`) when none of the hard prompts has actions.

Where the same property appears in a passing and in a violation run, the difference is
the configuration: `TransferQuiet` holds with partial rollout, where the servers
themselves refuse, and `SameAsUninterrupted` with calls of one token.

With partial rollout a sample that is interrupted after the processor has taken "DONE" stays
in `cancel_queue` and is never trained on; the job ends all the same, which is why
`Termination` and not `AllDelivered` is stated there. The starvation needs four samples: the
trainer must have taken the finished ones before `update_param_version` asks the queue for
its size, so that only interrupted ones are counted, and as many as `max_required_samples`.

With threshold 1 the rollouter can start more samples at a version than the
`rollout_num` of the recipe's README (line 135) allows, because
`update_param_version` counts what is left over after the trainer has gone on;
`RolloutNum` (in `Synchronous`) is therefore stated for threshold 0, where it holds, and
`NoOverrun` and `BoundedLag` bound what happens otherwise. They are one sample wider
than `max_required_samples`: while it is paused the processor may hold a sample it has
taken and not submitted, and `update_param_version` counts `active_tasks` and the two queues,
not that one. As the message queue has `max_required_samples` places, a trainer that is slow
enough then finds it full, and the oldest sample is dropped: at most one a version
(`OnePlace`), when there are fewer slots than `max_required_samples`, which is why the
setting "async" has one.

These properties say in their own text what they leave out because the code does not
give it: `NoOverrun` the sample in the processor's hand; `OnePlace` and `AllDelivered` what the
full message queue drops; `ProcessorSafe` (in `Consistent`) the two conditions of the crash; `Termination` a rollout that has starved itself; `Restartable` a tracker file that was opened and not written, and rotation with
one checkpoint kept (the old one is removed before the new one is written);
`Accounted` and `Consistent` of `Checkpointing` what the running pipeline has lost, which is counted apart: a restart loses
the samples in flight and no others, and the counters differ by just the losses;
`NegativeRecent` failures that a warm start brings back with the lifetime of a result, and those whose deletion
Redis has not heard of, because it stopped or the worker died after the page was stored;
`Optimal` brackets that the probe steps leave open;
`LeastLoaded` servers that have failed a request, whose count is never taken back;
`PolicyAge` the validations of the one-step-off policy: two updates old at the last step, and
before training those of the untrained model, even after a resume, as the weights are sent
before the checkpoint is loaded; `RewardsOwn` (in `Consistent`) the setting with both
`launch_reward_fn_async` and `balance_batch`, where rows get the rewards of others; and
`Accounted` of `OneStepOff` a job whose data ends, or cannot be read, before its last step,
which then is never saved. `OneStepOff` implements `Pipeline` until it is stopped for the
first time: a batch it skips on a restart is one the abstract pipeline would have to train.

### Bounds

In `OneStepOff` four batches have a first, a middle and a last step, the warm-up ends in
between, a checkpoint falls on the last step but one, and two stops allow a restart from the same
checkpoint, from a later one, and of a job that has ended; one epoch ends with the batches and two do not.
`TotalSteps` (4) is the length of a run in samples; it gives every coroutine its
first, a middle and its last turn, and with three nothing starves. In the setting `async` it is 5: the lag of
a batch is bounded by three versions there, and the fifth sample is the first that could lag by four. `MaxEpochs` (2) is the
most epochs of the one-step-off policy that are considered. `MaxFailures` (1) bounds the generations that raise: the
first that is not gathered ends the processor. `MaxSyncs` and `MaxPuts` bound
`MessageQueue`, `MaxSyncs` (2) the interruptions of an agent: the second comes upon what
the first has left. `MaxLength` (4) bounds the lists of `GuidanceSearch`; `MaxProbeSteps` (2) is
the code's own limit, and with it a list of four actions may be closed or left open, one of one action is closed. The theorems
of section 4 do not depend on these values.
`MaxCrashes` (2) lets a job die after a restart, before or after its first
save; `Total` (4) makes two versions, and each restart may add one, so that a rotation
with two kept removes one; two epochs make a restart in the second
pass, and `MaxLosses` (1) lets a life of the job lose a sample. `MaxRequests` (2), `MaxTime` (1) and
`MaxFaults` (1) bound `ToolServer`: two requests are all that meet on a page or a
permit, a page's entry and a failure outlive no more than one tick, and a fault is the
death of a worker or of Redis. In `tool_server`
the clients of a behaviour search or visit: what the two share is the loop, the first cache level and Redis, none of
which keeps an answer from its place. In `RewardLoop` three items are one that takes, one that
waits, and one that comes after it; nothing else is bounded.

### Fairness

- `message_queue`: each consumer is scheduled; nothing is assumed of producers.
- `partial`: each process runs while it can. The event loop, the two blocking
  actors, the timer of the monitor loop, the generations, and the delivery and
  answer of remote calls (Ray delivers each call once, or the job fails) are weakly fair.
  Which coroutine runs is not a matter of fairness: it is the head of the run queue.
- `partial_agent`: agents, server and manager are weakly fair; a synchronisation need
  not ever start.
- `tool_server`: some request goes on while one can - the event loops run and every HTTP
  request has a timeout. Nothing is assumed of clients, faults, restarts or time.
- `checkpointing`: both actors run, and a job that died is started again.
- `reward_loop`: time passes, the event loop and the executor's threads run. A reward
  model server need never answer, since the router sets no timeout; only a plain scoring
  function, which nothing can stop, is taken to return.

## 4. Proofs

| theorem | says |
|---|---|
| `MessageQueueProofs!ConsistentHolds`, `ConservationHolds`, `FifoHolds`, `NoLostWakeupHolds` | the invariants of the message queue for every size, number of puts and set of consumers |
| `GuidanceProofs!TypeCorrect` | bounds and results are lengths of the list, whatever the offset |
| `GuidanceProofs!JustifiedHolds`, `BracketedHolds` | the bounds move on evidence only and keep the answer between them, for every batch, number of steps and rollouts, and every policy |
| `GuidanceProofs!OptimalHolds` | a sample whose bracket is closed gets an optimal length, whatever the others of its batch do |
| `RewardLoopProofs!ConformsHolds` | a token bucket never lets through more than its capacity and rate allow, for every number of items, capacity and size of a request |
| `RewardLoopProofs!ConsistentHolds` | permits bound the scoring coroutines and threads the scoring functions, whatever times out or fails, for every number of items, permits and threads |
| `RewardLoopProofs!LeastLoadedHolds` | the router's choice is right about every server that has never failed a request, for every number of servers, items and attempts |
| `CheckpointingProofs!RestartableHolds`, `AccountedHolds`, `ConsistentHolds` | wherever and however often the job dies, it starts again from what the tracker named, a restart has lost what was in flight and nothing else, and both actors count alike, but for what the running pipeline has lost; for every dataset, trigger, frequency, rotation and number of losses |
| `ToolServerProofs!ConsistentHolds`, `AnswersOwnHolds`, `NegativeRecentHolds`, `FileWholeHolds` | permits, answers, failures and the dump file, for every set of workers, requests, lifetimes and faults |
| `PartialAgentProofs!TransferQuietHolds`, `ConsistentHolds` | no request is with the server during a transfer, and none leaves an event behind |
| `PartialAgentProofs!SameHolds`, `WholeCallsSameHolds` | an agent whose tool calls are not cut ends as if it had not been interrupted, for every script, limit and number of interruptions |
| `AsyncRecipesProofs!PolicyAgeHolds`, `AccountedHolds` | the one-step-off policy trains one update behind, a restart costs one batch and the last step is saved, for every length, warm-up and number of restarts |
| `AsyncRecipesProofs!OnePipelineHolds` | the one-step-off policy implements `Pipeline` until its first stop |
| `FullyAsyncProofs!TransferQuietHolds`, `VersionsHold` | with partial rollout no server generates while its weights are replaced, and trainer, queue and rollouter are one version apart at most, whatever call is late |
| `FullyAsyncProofs!EachOnceHolds`, `NoneDoubledHolds` | no coroutine of the rollouter is scheduled twice, and no sample is in two places between the feed and the trainer |
| `FullyAsyncProofs!NoOverrunHolds` | the rollout holds at most `max_required_samples` samples and one, for every threshold, trigger, queue and number of failures |
| `FullyAsyncProofs!LagBounded`, `BoundedLagHolds` | no sample of a batch lags behind by as many versions as the samples held ahead can outlast and two; where `max_required_samples` is a multiple of a version's samples, by those and one |
| `FullyAsyncProofs!OnPolicyHolds`, `RolloutNumHolds`, `PausedDuringSyncHolds` | with `staleness_threshold` 0 every sample is trained on with the parameters that generated it, no more than `rollout_num` are generated between updates, and the rollouter is paused while the weights move |
| `FullyAsyncProofs!ProcessorSafeHolds`, `OnePlaceHolds`, `AllDeliveredHolds` | with fewer samples generated at a time than a synchronisation takes, or a place in `pending_queue` for each, and nothing that raises: the processor does not crash, the full queue drops one sample a version at most and nothing else is lost, and (nothing interrupted) a trainer that stops was given the rest |
| `FullyAsyncProofs!ValidationLoggedHolds`, `TypeOKHolds` | a trainer that stops has logged every validation result; types |
| `FullyAsyncProofs!PipelineHolds` | the fully async policy implements `Pipeline`, for every number of samples, threshold, trigger, number of slots and places as in the row before last, and nothing interrupted |
| `AsyncRecipesProofs!ImplementsPipelineHolds` | the refinement mappings of run `async_recipes`, of both policies |
| `AsyncRecipesProofs!ConsistentHolds`, `NothingLostHolds`, `StalenessHolds`, `SynchronousHolds` | what run `async_recipes` checks of its three settings, for every size of the one-step-off policy and, of the two settings of the fully async one, from the general theorems above |
| `GuidanceProofs!RowsAlignedHolds`, `GroupsWholeHolds` | rows and groups stay whole through a training step, for every batch, setting, reward and number of ranks whose lists of rows are complete |
| `GuidanceProofs!HintsPayHolds` | what the search found reaches the rows, of all prompts or of the hard ones: none whose bracket it closed is rolled out with fewer actions than may succeed |
| `GuidanceProofs!UpdateFairHolds` | the update of the actor trains every row in one optimizer step with the weight of every other, for every mini-batch size, share of the ranks and cut into micro-batches |

*Message queue.* The invariant is the conjunction of the five properties and `Newest`.
`Fifo` says that the deque is sorted and newer than what was handed out; a put appends
the next number, and that this is larger than everything before it is not in `Fifo`, so
`Newest` adds it. `Conservation` and `Bounded` need each other's types only. One lemma
says what is left of the deque before an append (`RoomForOne`), so that the two cases of
`put_sample` are distinguished once. The assumptions are that the size is positive and
the bounds are numbers.

*Guidance search.* `Justified` and `Bracketed` are about states between probe steps;
inside one, what `success` means has to be said: a sample in it has passed at the
current midpoint, which is therefore one with which success is possible, and an open
sample outside it, once a rollout is in, has failed at the midpoint, which is therefore
below the length that surely succeeds. That is `StepInv`. `ResultInv` ties the result to
the lower bounds at the return. `ProbeRollouts > 0` (in `GuidanceAssumption`) is needed:
with none every sample would count as failed on no evidence.
`Optimal` is about samples with `lo = hi` because the code returns the lower bound
when it runs out of steps too: n steps always close a bracket of up to 2^n - 1 actions (15 with the
default of four), and for longer lists, 2^n among them, the result is the best lower bound known and can
be a length with which the agent always fails.

*Reward loop.* `Conforms` alone is not inductive: when a large request's sleep ends the
allowance must have what it takes, although others were served while it slept. `LimitInv`
says why. What the bucket holds is never more than the allowance (`Covered`); a large
request sleeps for just what is missing, and until its end the bucket is in debt, so that
nobody is served in between (`SleepPays`); and two large requests end their sleeps one
request's refill apart (`Spaced`), which is what the second needs when the first takes its
share. For the router, `RouterInv` compares `request_counts` with the requests under way:
never less, and the same for a server that has not failed. `PoolInv` is about permits and threads:
every item waits for the semaphore once at most and a permit is out for each item that is
scored (`Permits`), every job waits or runs, once (`Pool`), and a function that runs belongs to an item
that is scored or has a thread, also after its item has gone on without it (`Running`). The assumptions are that
capacities and needs are positive and that the batch is finite.


*Checkpoints.* `Restartable` and `Accounted` are about the disk, and the disk is written by
an actor that counts; so `CheckpointInv` says of a checkpoint that is whole what the weights
in it have seen (`Sound`): draws before the position that lies beside them, all but what
was in flight or lost in this life and the lives before, and as many as the version counts, or an
unfinished version's steps more. What the pipeline loses while it runs (`lost`, and `lostBefore` of the lives
before) moves from `pending` to a set of its own, so that every action but one needs the lemma `LoseKeeps` only. `Listed` says that the list of a model's checkpoints is in order and ends with
the newest, which is what keeps the rotation from the one the tracker names, unless it keeps
only one. `Saves` follows a save through its seven places. The bounds are products - so many
lives times so many samples - and lemmas of their own (`OneMore`, `Grows`, `StepsOf`) hold
that arithmetic. The proof found that the versions of the model were too few: a
job that is started again when all its steps are counted draws one sample more, so every
restart can add a version.

*Tool server.* `Dumps` is inductive by itself: a thread that is not idle holds the lock of the
dump and writes its own file. `ServerInv` says what the parts of a request are
(`Served`), that permits out and permits left add up (`Permitted`), what may be in both cache
levels (`Stored` values are about their key and no failure outlives its kind, `Negatives`). A
batch is looked up key by key, a course of steps of unknown number: `Throughout` and `Course`
are the induction the prover can do, over numbers and as the least counterexample. Writing them
showed that `L1Set` had a `CASE` with two guards that overlap.

*Partial agents.* `AgentInv` ties the three state machines of a request together - agent,
server, event - and says how far the turn has come in each; `TransferQuiet` follows as
nobody waits for the server when the manager has gathered. `Same` adds what an agent that is
not interrupted would have by now (`Before`, the turns before this one). It needs `NoCallCut`, a condition on steps: run
`split_call` shows that a call that is cut is lost. `WholeCallsSameHolds`
discharges it for calls of one token, the scripts of the run, where no interruption can fall inside a
call; the general theorem says that for longer calls the cut is the only way to differ. `ResponseLength > 0`
(in `LimitAssumption`) is needed: an agent with no room for its first token would never end
its turn.

*One-step-off policy.* `OneInv` says, for every place of the driver, which update the weights of
the rollout workers have (`Weights`, in terms of the step in which the last generation was launched), which
batches came to nothing and why (`Recovered`: one for each start), and why there is no next batch (`Supplied`).
`OnePipelineHolds` maps each action to a step of `Pipeline` or a stutter: launching begins a
batch, the end of the wait gives it, the update of the weights is the update.
The theorems speak of `MCAsyncRecipes`, whose other settings leave these variables alone.

*Fully async policy.* One invariant for each part of the system, that the next may rely on; all are in `FullyAsyncInvariants`.
`SyncInv` says for every place of the trainer which versions queue and rollouter have and which
remote calls are under way or done (`VersionsAt`); with partial rollout `Silenced` adds that from the end of
`cancel` to `resume` the servers refuse what is sent to them and have nothing left. `LockInv` and `TasksRun` are about the event
loop: a coroutine is in the run queue or in the queue of the lock, once, unless it
waits for something else, and whoever is in the critical section of `async with self.lock` owns the lock. `FlowInv`
says what the places of a sample are: `pending_queue` holds the draws that follow what was
taken, in order (`FlowType`), and every sample is in one place (`PlacedOnce`). `CountInv` is about
`staleness_samples`: it counts every sample held but the one in the processor's hand, and as
`update_param_version` holds the lock while it adds up `active_tasks` and the two queues, nothing can be
submitted in between. `NoOverrun` follows for the sample in the hand and no other. All of these
were runs of TLC first, in the three settings of `async_recipes` and `partial`. The proofs of
the first two found nothing; the count had to be restated, as the bound the model stated was
one sample too small: the processor takes a sample before it looks whether it may submit it.

The rest builds on these. `GivenInv` says that a version is made of the samples given since the last and
`ValidInv` that one validation result waits at most. For staleness, `GatherInv` says which versions a
sample that is being put can have: the rollouter's, or, gathered by `pause()`, the one before; so `LagInv` can say, for each place
in the message queue, how many samples may have been given by the time this one is. Dropping the oldest sample only helps,
and the bound is one version wider than a reader of the code would guess, as the gathered samples queue up behind all others
after the synchronisation.
With threshold 0 `RolloutInv` counts what was taken against the version counted from, `PauseInv` says that
nothing undoes the pause of a synchronisation while the processor lives, and `PolicyInv` that whatever waits has the rollouter's
version. `PausedDuringSync` had been stated without its condition; the proof failed at the last
synchronisation, where the monitor may undo the pause because nobody is left to be paused, and the condition was added.
`FinalInv`, `OverInv` and `EndInv` follow the end marker through the three processes. What is lost is counted by `LossInv`: a put drops
a sample only when more are held than `max_required_samples`, which happens at most once between two versions. That
nothing else is lost needs `ProcessorSafe`, the hardest of all: `EarlyInv` says that until the processor waits for
its tasks the first time none of them returns, because the tasks come behind the processor in the run queue
(`Before`), and the feed, which might keep it waiting, has a place for everything that can be taken. Where it
has not, `FewInv` says how many samples have been passed on by then: a `pause()` that gathers tasks comes after the
trainer was given the samples of a synchronisation, and the processor has not yet submitted more than it may have
under way without waiting. So it is enough that fewer samples are generated at a time than a synchronisation takes
*or* that `pending_queue` has a place for each; without both the theorem is false.
The code guarantees neither - 128 places, 16 samples a server, and whatever the configuration takes for a
synchronisation - but every script of the repository has one of the two: those with 24 and 16 servers generate 384 and 256
samples at a time and synchronise after 512, the other scripts of the recipe have 64 to 128 at a time for 512 or 1024, and
`retool` has 64 of each and 128 places.
`PipelineHolds` is the refinement: with the invariants, each step is one of five kinds. The processor takes a sample, which begins it
(`TakeBegins`: at most `max_required_samples` are held when it does); the trainer collects one
(`CollectGives`), a put loses one (`LossDrops`), a version is made (`VersionUpdates`: of the samples `GivenInv` counts, or after the
finish signal, when nothing is left, `NothingAhead`), or nothing the pipeline sees changes. It needs that nothing is interrupted: what lies in
`cancel_queue` at the end is never given, but the last update is made.
`AsyncRecipesProofs` applies the theorems to the two settings of the run: `Async` and `Sync` are instances of
`FullyAsyncProofs`, whose assumptions on constants hold there (`AsyncConstants`, `SyncConstants`).

*Training step.* `TableInv` goes with the table of rows through the phases of `fit`. `Grouped` says that
every uid has `N` rows, and as long as nothing has moved in which order; `Aligned`, that a rollout
stands in a row of its prompt with the hints it should have; `Scored`, whose reward and log-probabilities a row
has from which phase on. `Selected` says in terms of `best`, the best unguided reward, which groups are off-policy,
and before that is decided that the hard groups are listed once each (`Hard`): the written-back rows (`HardRows`)
are then those of the groups off-policy, all of them. `Searched` takes `SearchInv` along, and `Phase` says that
nothing is generated before the search has returned. That advantages add up to nothing needs sums over groups;
the fold behind `SumFunctionOnSet` is taken apart once (`SumUnfolds`, `SumIsLinear`), as is the concatenation of
lists (`Flattened`), by the least counterexample.
For the update, `MiniBatches` and `EveryRow` compute from the division with remainder that every row is on one rank, in one
optimizer step, at one place of it (the last step may be smaller). `OneOfEach` is the lemma on lists of different
lengths: what their concatenation has once stands in one of them, at one position; so a row is in one micro-batch (`MicroBatchesOf`), and
what it adds to the gradient (`LossOf`) has one step and one weight. `Trained` says so once the step is done. That the weight is the
same for all rows is then arithmetic, and that the ratio is to the policy of the rollout follows from `Scored`.
The four theorems about the step have a hypothesis, `ListsComplete` of `GuidedStep`: what `sorted`, `_balance_batch` and
`rearrange_micro_batches` return has every row once, for all lengths in `Settings` and every cut of a rank's rows or of a mini-batch. It cannot be
proved, since `SortSeq` is defined outside TLA+ and the differencing method is induction over data.
TLC evaluates it, as an assumption of `MCGuidedStep`, for every set of rows, every list of lengths of the run, and all
lengths up to `MaxTokenLen` that as many rows as a rank has, or fewer, can have.

*Only model-checked*: `Balanced` of the training step (how evenly the rows are cut up, and that no micro-batch is empty), and all liveness. Liveness and `ENABLED` are out of the reach of the
prover. So are the library's induction theorems, which take an operator as a parameter:
induction over numbers is done by the least counterexample (`ToolServerProofs!Throughout`), but
what a recursive function computes over data of every shape - the differencing
method, a list of micro-batches - is not proved. No module uses a `RECURSIVE` operator.

## 5. Not modelled

- In the Rollouter: validation during training, idle-time statistics, and a dataloader that raises in
  `_feed_samples` (what that loses is `StreamBreaks` of `Checkpointing`). In the Trainer:
  the assembly of a batch from samples. In `FullyAsync`, `SaveCheckpoint`
  keeps only the decision and the version; `Checkpointing` has the rest.
- In `FullyAsync`, cancelling all servers is one step, as are resuming them and
  resetting their caches: the Rollouter awaits all of them. `PartialAgent` takes the
  first two apart, with one server and one worker.
- In the agents: `INTERACTING`, several tool calls of one turn as separate events, tool
  errors, images. A round of tool calls is one step and cannot be interrupted, as in
  the code, which looks at its event between states.
- In `GuidedStep`: padding to the number of workers, the text of hints, the critic, REMAX
  and validation, the division of the advantage by the standard deviation, token-mean
  losses, LUFFY shaping and the distillation loss, more than one PPO epoch, micro-batches
  of fixed size.
- In `Checkpointing`: the contents of files, remote storage, `resume_path`, the Megatron
  manager.
- In `OneStepOff`: the steps of a save (`Checkpointing` has them, for the same order of
  files), the asynchronous server mode, reward model and critic, the remaining work of a step.
- In `ToolServer`: normalisation and compression of keys and values, other exceptions
  than those of HTTP and Redis, the dump at shutdown, an expiry of the client's HTTP
  connection.
- In `RewardLoop`: the synchronous `__call__`, the inner SGLang router, `dapo` and other
  loops without limits.
- Crashes of the fully async actors one by one: the code restarts nothing, the job ends
  with them.
- Most of the repository by lines is models, engines, kernels, data conversion and
  configuration: numerical or sequential code without state that a model checker would
  explore. It is marked `not_modelled` in `PROJECT.json`, with the reason there.

Hazards without a property are listed in `PROJECT.json` with a note.

## 6. Plan

Done: the fully asynchronous policy with its queue, refinement and liveness; the
one-step-off policy as a second implementation of `Pipeline`; checkpoints with crashes; the partial agents; adaptive guidance composed with the guided
step, its balancing and the update of the actor; the tool server; the reward loop and its
router; the proofs above.

Next, in this order:

1. `ServerChoice`: least loaded with sticky sessions in a bounded cache.
2. Validation in `GuidedStep`'s trainer, and `launch_reward_fn_async` there.

A theorem still worth proving: the refinement of `Pipeline` by `FullyAsync` with
partial rollout and failures, for a pipeline that may also lose what was interrupted: after a generation that raises, the processor's end lets
`RunnerClears` drop several samples in one step.

