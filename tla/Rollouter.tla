----------------------------- MODULE Rollouter ------------------------------
(***************************************************************************)
(* FullyAsyncRollouter (recipe/fully_async_policy/fully_async_rollouter.py)*)
(* with the agent-loop manager and the LLM servers it drives.  The actor is*)
(* one asyncio event loop: an action is what a coroutine does between two  *)
(* points where it may suspend, or the arrival of an answer from another   *)
(* process.  Coroutines: main (_streaming_generation_main), feed           *)
(* (_feed_samples), proc (_processor_worker), monitor                      *)
(* (_async_monitor_loop), one task per sample in generation, and the remote*)
(* calls pause, update (update_param_version) and resume.                  *)
(***************************************************************************)
EXTENDS AsyncioLoop, FullyAsyncShared

CONSTANTS ServerSlots,       \* len(server_handles) * 16
          PendingSize,       \* maxsize of pending_queue
          PartialRollout,    \* async_training.partial_rollout
          MaxFailures        \* bound on the generations that raise

ASSUME RollouterAssumption ==
  /\ {ServerSlots, PendingSize} \subseteq Nat \ {0}
  /\ MaxFailures \in Nat
  /\ PartialRollout \in BOOLEAN

MaxConcurrentSamples ==
  IF ServerSlots < MaxRequiredSamples THEN ServerSlots ELSE MaxRequiredSamples

VARIABLES pc,                 \* where each named coroutine stands
          waitFor,            \* which of the processor's three wait loops it is in
          paused, rolloutRunning, monitorLoopTrigger,
          stalenessSamples,
          rolloutVersion,     \* current_param_version of the rollouter
          globalSteps,
          pendingQueue, cancelQueue,
          hand,               \* rollout_sample, taken but not submitted
          task,               \* task[s]: the task now generating sample s
          finished,           \* tasks in active_tasks that have returned
          failed,             \* tasks in active_tasks that have raised
          doneBound,          \* done_tasks has been assigned
          snapshot,           \* partial sum of update_param_version
          serversPaused,      \* paused on the LLM servers
          sampleVersion       \* param_version of each completed sample

flowVars == <<pendingQueue, cancelQueue, hand, task, finished, failed, sampleVersion>>
modeVars == <<paused, rolloutRunning, monitorLoopTrigger>>
restVars == <<stalenessSamples, rolloutVersion, globalSteps, doneBound, waitFor,
              snapshot, serversPaused>>
rolloutVars == <<loopVars, pc, flowVars, modeVars, restVars>>

Names == {"main", "feed", "proc", "monitor", "pause", "update", "resume"}
Co(name) == <<name, 0>>
Task(s)  == <<"task", s>>

Goto(name, label) == pc' = [pc EXCEPT ![name] = label]

Live == {s \in Samples : task[s] /= "none"}
ActiveTasks == Cardinality(Live) + finished + Cardinality(failed)

(* The state _initialize_components leaves, fit() started.                 *)
RolloutInit ==
  /\ ready = <<Co("main"), Co("monitor")>> /\ holder = Nobody /\ lockQueue = <<>>
  /\ pc = [n \in Names |-> CASE n = "main" -> "start" [] n = "monitor" -> "check"
                             [] OTHER -> "none"]
  /\ paused = FALSE /\ rolloutRunning = TRUE /\ monitorLoopTrigger = TRUE
  /\ stalenessSamples = 0 /\ rolloutVersion = 0 /\ globalSteps = 1
  /\ pendingQueue = <<>> /\ cancelQueue = <<>> /\ hand = NoSample
  /\ task = [s \in Samples |-> "none"] /\ finished = 0 /\ failed = {}
  /\ doneBound = FALSE /\ waitFor = "drain" /\ snapshot = 0
  /\ serversPaused = FALSE
  /\ sampleVersion = [s \in Samples |-> 0]

\* Mutant: the staleness is not looked at.
ShouldPause_QueueOnly == Len(queue) >= MaxRequiredSamples

\* _should_pause_generation, a blocking call: the loop runs nothing else.
ShouldPause == \/ Len(queue) >= MaxRequiredSamples
               \/ stalenessSamples >= MaxRequiredSamples
-----------------------------------------------------------------------------
\* condition.notify_all(): the processor is the only coroutine that waits on it.
Notified == CASE pc["proc"] = "idleWait"   -> "idleWoken"
              [] pc["proc"] = "submitWait" -> "submitWoken"
              [] OTHER                     -> pc["proc"]
WokenByNotify == IF pc["proc"] \in {"idleWait", "submitWait"} THEN <<Co("proc")>> ELSE <<>>

\* A task of active_tasks ends: it completes the processor's
\* asyncio.wait(FIRST_COMPLETED), and pause()'s gather if it was the last.
EndsGather == pc["pause"] = "gathering" /\ Cardinality(Live) = 1
PcAfterTaskEnd ==
  [pc EXCEPT !["proc"]  = IF @ = "waiting" THEN "returned" ELSE @,
             !["pause"] = IF EndsGather THEN "gathered" ELSE @]
WokenByTaskEnd ==
  (IF pc["proc"] = "waiting" THEN <<Co("proc")>> ELSE <<>>)
    \o (IF EndsGather THEN <<Co("pause")>> ELSE <<>>)
-----------------------------------------------------------------------------
(* _streaming_generation_main: start both workers, wait for the first to   *)
(* end; a processor that ends before the feed is an error.  Either way the *)
(* processor is awaited or already over, None is sent, running is cleared. *)
MainStart ==
  /\ Runs(Co("main")) /\ pc["main"] = "start"
  /\ pc' = [pc EXCEPT !["main"] = "waitFirst", !["feed"] = "put", !["proc"] = "top"]
  /\ Suspend(<<Co("feed"), Co("proc")>>) /\ LockUnchanged
  /\ UNCHANGED <<flowVars, modeVars, restVars, rpc, mqVars>>

\* Mutant: the exception of a worker is not followed by the finish signal.
AfterWorkers_Reraises == IF pc["proc"] = "crashed" THEN "done" ELSE "sending"

\* None is sent whether the workers returned or raised.
AfterWorkers == "sending"

ProcOver == pc["proc"] \in {"done", "crashed"}

MainWoken ==
  /\ Runs(Co("main")) /\ pc["main"] = "woken"
  /\ Goto("main", IF ProcOver THEN AfterWorkers ELSE "waitProc")
  /\ Suspend(<<>>) /\ LockUnchanged
  /\ UNCHANGED <<flowVars, modeVars, restVars, rpc, mqVars>>

\* The message queue receives the finish signal.
FinishSignalArrives ==
  /\ pc["main"] = "sending"
  /\ MQ!PutSample(End)
  /\ Goto("main", "sent") /\ Wake(Co("main")) /\ LockUnchanged
  /\ UNCHANGED <<flowVars, modeVars, restVars, rpc, mqVersion>>

MainAcquires ==
  /\ Runs(Co("main")) /\ pc["main"] = "sent"
  /\ Acquire(Co("main")) /\ Goto("main", "stop")
  /\ UNCHANGED <<flowVars, modeVars, restVars, rpc, mqVars>>

MainStops ==
  /\ Runs(Co("main")) /\ pc["main"] = "stop"
  /\ rolloutRunning' = FALSE
  /\ Release /\ Suspend(NextOwner) /\ Goto("main", "done")
  /\ UNCHANGED <<flowVars, paused, monitorLoopTrigger, restVars, rpc, mqVars>>

WokenMain == IF pc["main"] \in {"waitFirst", "waitProc"} THEN <<Co("main")>> ELSE <<>>
EndWorker(name, label) ==
  pc' = [pc EXCEPT ![name] = label,
                   !["main"] = IF @ \in {"waitFirst", "waitProc"} THEN "woken" ELSE @]
-----------------------------------------------------------------------------
(* _feed_samples: one sample per global step, then "DONE".                 *)
LastStep(item) == item >= TotalSteps

FeedPut ==
  /\ Runs(Co("feed")) /\ pc["feed"] \in {"put", "putDone"}
  /\ Len(pendingQueue) < PendingSize
  /\ LET item   == IF pc["feed"] = "put" THEN globalSteps ELSE End
         getter == pc["proc"] = "getting"
         woken  == IF getter THEN <<Co("proc")>> ELSE <<>>
         pcNow  == [pc EXCEPT !["proc"] = IF getter THEN "takes" ELSE @]
     IN  /\ pendingQueue' = Append(pendingQueue, item)
         /\ \/ /\ pc["feed"] = "put" /\ ~LastStep(item)
               /\ globalSteps' = globalSteps + 1
               /\ pc' = pcNow /\ GoOn(woken)
            \/ /\ pc["feed"] = "put" /\ LastStep(item)
               /\ pc' = [pcNow EXCEPT !["feed"] = "putDone"] /\ GoOn(woken)
               /\ UNCHANGED globalSteps
            \/ /\ pc["feed"] = "putDone"
               /\ pc' = [pcNow EXCEPT !["feed"] = "done",
                           !["main"] = IF @ = "waitFirst" THEN "woken" ELSE @]
               /\ Suspend(woken \o IF pc["main"] = "waitFirst" THEN <<Co("main")>> ELSE <<>>)
               /\ UNCHANGED globalSteps
  /\ LockUnchanged
  /\ UNCHANGED <<cancelQueue, hand, task, finished, failed, sampleVersion, modeVars,
                 stalenessSamples, rolloutVersion, doneBound, waitFor, snapshot,
                 serversPaused, rpc, mqVars>>

\* pending_queue is full: suspend until the processor takes from it.
FeedBlocks ==
  /\ Runs(Co("feed")) /\ pc["feed"] \in {"put", "putDone"}
  /\ Len(pendingQueue) >= PendingSize
  /\ Goto("feed", IF pc["feed"] = "put" THEN "full" ELSE "fullDone")
  /\ Suspend(<<>>) /\ LockUnchanged
  /\ UNCHANGED <<flowVars, modeVars, restVars, rpc, mqVars>>

FeedUnblocked(label) == CASE label = "full"     -> "put"
                          [] label = "fullDone" -> "putDone"
                          [] OTHER              -> label
-----------------------------------------------------------------------------
(* _processor_worker.  At the top of its loop: pause, or take the next     *)
(* sample, a cancelled one first.                                          *)
ProcPauses ==
  /\ Runs(Co("proc")) /\ pc["proc"] = "top"
  /\ paused \/ ShouldPause
  /\ Acquire(Co("proc")) /\ Goto("proc", "setPaused")
  /\ UNCHANGED <<flowVars, modeVars, restVars, rpc, mqVars>>

ProcSetsPaused ==
  /\ Runs(Co("proc")) /\ pc["proc"] = "setPaused"
  /\ paused' = TRUE
  /\ Release /\ GoOn(NextOwner)
  /\ waitFor' = "drain" /\ Goto("proc", "loop")
  /\ UNCHANGED <<flowVars, rolloutRunning, monitorLoopTrigger, stalenessSamples,
                 rolloutVersion, globalSteps, doneBound, snapshot, serversPaused, rpc, mqVars>>

ProcTakesCancelled ==
  /\ Runs(Co("proc")) /\ pc["proc"] = "top"
  /\ ~paused /\ ~ShouldPause /\ cancelQueue /= <<>>
  /\ hand' = Head(cancelQueue) /\ cancelQueue' = Tail(cancelQueue)
  /\ waitFor' = "slots" /\ Goto("proc", "loop")
  /\ GoOn(<<>>) /\ LockUnchanged
  /\ UNCHANGED <<pendingQueue, task, finished, failed, sampleVersion, modeVars,
                 stalenessSamples, rolloutVersion, globalSteps, doneBound, snapshot,
                 serversPaused, rpc, mqVars>>

\* pending_queue.get() on an empty queue suspends; what it returns later is
\* used without looking at paused again.
ProcTakes ==
  /\ Runs(Co("proc"))
  /\ \/ pc["proc"] = "top" /\ ~paused /\ ~ShouldPause /\ cancelQueue = <<>>
     \/ pc["proc"] = "takes"
  /\ pendingQueue /= <<>>
  /\ LET item == Head(pendingQueue) IN
       /\ hand' = IF item = End THEN NoSample ELSE item
       /\ waitFor' = IF item = End THEN "final" ELSE "slots"
  /\ pendingQueue' = Tail(pendingQueue)
  /\ stalenessSamples' = stalenessSamples + 1
  /\ pc' = [pc EXCEPT !["proc"] = "loop", !["feed"] = FeedUnblocked(@)]
  /\ GoOn(IF pc["feed"] \in {"full", "fullDone"} THEN <<Co("feed")>> ELSE <<>>)
  /\ LockUnchanged
  /\ UNCHANGED <<cancelQueue, task, finished, failed, sampleVersion, modeVars,
                 rolloutVersion, globalSteps, doneBound, snapshot, serversPaused, rpc, mqVars>>

ProcAwaitsSample ==
  /\ Runs(Co("proc")) /\ pc["proc"] = "top"
  /\ ~paused /\ ~ShouldPause /\ cancelQueue = <<>> /\ pendingQueue = <<>>
  /\ Goto("proc", "getting") /\ Suspend(<<>>) /\ LockUnchanged
  /\ UNCHANGED <<flowVars, modeVars, restVars, rpc, mqVars>>
-----------------------------------------------------------------------------
(* The three loops that wait, holding the lock, for tasks to return: all of*)
(* them before idling ("drain") or ending ("final"), one of them when the  *)
(* concurrency limit is reached ("slots").                                 *)
\* Mutants: DONE ends the processor at once; one sample too many in generation.
LoopOver_NoFinalWait == IF waitFor = "drain" THEN ActiveTasks = 0
                        ELSE waitFor = "final" \/ ActiveTasks < MaxConcurrentSamples

LoopOver == IF waitFor = "slots" THEN ActiveTasks < MaxConcurrentSamples
                                 ELSE ActiveTasks = 0

ProcLoopEnds ==
  /\ Runs(Co("proc")) /\ pc["proc"] = "loop" /\ LoopOver
  /\ \/ /\ waitFor \in {"drain", "slots"}
        /\ Acquire(Co("proc"))
        /\ Goto("proc", IF waitFor = "drain" THEN "idle" ELSE "submit")
     \/ /\ waitFor = "final"
        /\ EndWorker("proc", "done") /\ Suspend(WokenMain) /\ LockUnchanged
  /\ UNCHANGED <<flowVars, modeVars, restVars, rpc, mqVars>>

ProcLoopAcquires ==
  /\ Runs(Co("proc")) /\ pc["proc"] = "loop" /\ ~LoopOver
  /\ Acquire(Co("proc")) /\ Goto("proc", "check")
  /\ UNCHANGED <<flowVars, modeVars, restVars, rpc, mqVars>>

\* asyncio.wait on the tasks, if there still are any once the lock is held.
ProcWaits ==
  /\ Runs(Co("proc")) /\ pc["proc"] = "check" /\ ActiveTasks > 0
  /\ LET someEnded == finished > 0 \/ failed /= {} IN
       /\ Goto("proc", IF someEnded THEN "returned" ELSE "waiting")
       /\ Suspend(IF someEnded THEN <<Co("proc")>> ELSE <<>>)
  /\ LockUnchanged
  /\ UNCHANGED <<flowVars, modeVars, restVars, rpc, mqVars>>

\* None left: the loop over done_tasks sees the tasks of an earlier wait again,
\* and raises UnboundLocalError if there was none.
ProcSkipsWait ==
  /\ Runs(Co("proc")) /\ pc["proc"] = "check" /\ ActiveTasks = 0
  /\ Release
  /\ \/ doneBound /\ Goto("proc", "loop") /\ GoOn(NextOwner)
     \/ ~doneBound /\ EndWorker("proc", "crashed") /\ Suspend(NextOwner \o WokenMain)
  /\ UNCHANGED <<flowVars, modeVars, restVars, rpc, mqVars>>

\* Mutant: done_tasks lives in the loop's body only.
ProcReaps_Scoped ==
  /\ Runs(Co("proc")) /\ pc["proc"] = "returned"
  /\ finished' = 0 /\ failed' = {} /\ doneBound' = FALSE
  /\ Release
  /\ \/ failed = {} /\ Goto("proc", "loop") /\ GoOn(NextOwner)
     \/ failed /= {} /\ EndWorker("proc", "crashed") /\ Suspend(NextOwner \o WokenMain)
  /\ UNCHANGED <<pendingQueue, cancelQueue, hand, task, sampleVersion, modeVars,
                 stalenessSamples, rolloutVersion, globalSteps, waitFor, snapshot,
                 serversPaused, rpc, mqVars>>

\* asyncio.wait has returned the ended tasks; awaiting one that raised raises.
ProcReaps ==
  /\ Runs(Co("proc")) /\ pc["proc"] = "returned"
  /\ finished' = 0 /\ failed' = {} /\ doneBound' = TRUE
  /\ Release
  /\ \/ failed = {} /\ Goto("proc", "loop") /\ GoOn(NextOwner)
     \/ failed /= {} /\ EndWorker("proc", "crashed") /\ Suspend(NextOwner \o WokenMain)
  /\ UNCHANGED <<pendingQueue, cancelQueue, hand, task, sampleVersion, modeVars,
                 stalenessSamples, rolloutVersion, globalSteps, waitFor, snapshot,
                 serversPaused, rpc, mqVars>>

\* While paused, wait on the condition; then start over.
ProcIdles ==
  /\ Runs(Co("proc")) /\ pc["proc"] = "idle"
  /\ Release
  /\ \/ paused /\ Goto("proc", "idleWait") /\ Suspend(NextOwner)
     \/ ~paused /\ Goto("proc", "top") /\ GoOn(NextOwner)
  /\ UNCHANGED <<flowVars, modeVars, restVars, rpc, mqVars>>

\* While paused, wait on the condition; then submit the sample in hand.
ProcHoldsBack ==
  /\ Runs(Co("proc")) /\ pc["proc"] = "submit" /\ paused
  /\ Release /\ Suspend(NextOwner) /\ Goto("proc", "submitWait")
  /\ UNCHANGED <<flowVars, modeVars, restVars, rpc, mqVars>>

ProcSubmits ==
  /\ Runs(Co("proc")) /\ pc["proc"] = "submit" /\ ~paused
  /\ task' = [task EXCEPT ![hand] = "created"]
  /\ hand' = NoSample
  /\ Release /\ GoOn(<<Task(hand)>> \o NextOwner) /\ Goto("proc", "top")
  /\ UNCHANGED <<pendingQueue, cancelQueue, finished, failed, sampleVersion, modeVars,
                 restVars, rpc, mqVars>>

\* condition.wait() takes the lock back before it returns.
ProcNotified ==
  /\ Runs(Co("proc")) /\ pc["proc"] \in {"idleWoken", "submitWoken"}
  /\ Acquire(Co("proc"))
  /\ Goto("proc", IF pc["proc"] = "idleWoken" THEN "idle" ELSE "submit")
  /\ UNCHANGED <<flowVars, modeVars, restVars, rpc, mqVars>>

Processor ==
  \/ ProcPauses \/ ProcSetsPaused \/ ProcTakesCancelled \/ ProcTakes
  \/ ProcAwaitsSample \/ ProcLoopEnds \/ ProcLoopAcquires \/ ProcWaits
  \/ ProcSkipsWait \/ ProcReaps \/ ProcIdles \/ ProcHoldsBack \/ ProcSubmits
  \/ ProcNotified
-----------------------------------------------------------------------------
(* _process_single_sample_streaming, and the agent loop and servers behind *)
(* generate_single_sample_async.                                           *)
TaskStarts(s) ==
  /\ Runs(Task(s)) /\ task[s] = "created"
  /\ task' = [task EXCEPT ![s] = "sent"]
  /\ Suspend(<<>>) /\ LockUnchanged
  /\ UNCHANGED <<pc, pendingQueue, cancelQueue, hand, finished, failed, sampleVersion,
                 modeVars, restVars, rpc, mqVars>>

\* Mutant: the server checks paused only before it is paused.
Accepted_Always == "generating"

Accepted == IF serversPaused THEN "refused" ELSE "generating"

\* A paused server takes no new request: it answers at once, cancelled.
ServerAccepts(s) ==
  /\ task[s] = "sent"
  /\ task' = [task EXCEPT ![s] = Accepted]
  /\ UNCHANGED <<loopVars, pc, pendingQueue, cancelQueue, hand, finished, failed,
                 sampleVersion, modeVars, restVars, rpc, mqVars>>

Failures == Cardinality({s \in Samples : task[s] = "raised"} \union failed)

\* The answer: an interrupted generation may have completed all the same.
GenerationEnds(s) ==
  /\ \E outcome \in {"completed", "cancelled", "raised"} :
       /\ outcome = "completed" => task[s] \in {"generating", "interrupted"}
       /\ outcome = "cancelled" => task[s] \in {"interrupted", "refused"}
       /\ outcome = "raised"    => /\ task[s] \in {"generating", "interrupted"}
                                   /\ Failures < MaxFailures
       /\ task' = [task EXCEPT ![s] = outcome]
  /\ task[s] \in {"generating", "interrupted", "refused"}
  /\ Wake(Task(s)) /\ LockUnchanged
  /\ UNCHANGED <<pc, pendingQueue, cancelQueue, hand, finished, failed, sampleVersion,
                 modeVars, restVars, rpc, mqVars>>

\* A complete sample takes the current version and goes to the message queue.
TaskCompletes(s) ==
  /\ Runs(Task(s)) /\ task[s] = "completed"
  /\ sampleVersion' = [sampleVersion EXCEPT ![s] = rolloutVersion]
  /\ task' = [task EXCEPT ![s] = "putting"]
  /\ Suspend(<<>>) /\ LockUnchanged
  /\ UNCHANGED <<pc, pendingQueue, cancelQueue, hand, finished, failed, modeVars,
                 restVars, rpc, mqVars>>

\* The message queue receives put_sample(s).
PutArrives(s) ==
  /\ task[s] = "putting"
  /\ MQ!PutSample(s)
  /\ task' = [task EXCEPT ![s] = "put"]
  /\ Wake(Task(s)) /\ LockUnchanged
  /\ UNCHANGED <<pc, pendingQueue, cancelQueue, hand, finished, failed, sampleVersion,
                 modeVars, restVars, rpc, mqVersion>>

\* The task ends: delivered, interrupted (to cancel_queue), or raising.
TaskEnds(s) ==
  /\ Runs(Task(s)) /\ task[s] \in {"put", "cancelled", "raised"}
  /\ task' = [task EXCEPT ![s] = "none"]
  /\ cancelQueue' = IF task[s] = "cancelled" THEN Append(cancelQueue, s) ELSE cancelQueue
  /\ finished' = IF task[s] = "raised" THEN finished ELSE finished + 1
  /\ failed'   = IF task[s] = "raised" THEN failed \union {s} ELSE failed
  /\ pc' = PcAfterTaskEnd
  /\ Suspend(WokenByTaskEnd) /\ LockUnchanged
  /\ UNCHANGED <<pendingQueue, hand, sampleVersion, modeVars, restVars, rpc, mqVars>>
-----------------------------------------------------------------------------
(* Remote calls: the actor starts a coroutine for each.  Ray resolves the  *)
(* reference given to resume() first, so it starts after update returned.  *)
CallArrives(c) ==
  /\ rpc[c] = "sent"
  /\ c = "resume" => rpc["update"] = "done"
  /\ rpc' = [rpc EXCEPT ![c] = "running"]
  /\ Goto(c, "start") /\ Wake(Co(c)) /\ LockUnchanged
  /\ UNCHANGED <<flowVars, modeVars, restVars, mqVars>>

CallAcquires(c) ==
  /\ Runs(Co(c)) /\ pc[c] = "start"
  /\ Acquire(Co(c)) /\ Goto(c, "locked")
  /\ UNCHANGED <<flowVars, modeVars, restVars, rpc, mqVars>>

Returns(c) == rpc' = [rpc EXCEPT ![c] = "done"]

(* pause(): stop new tasks, cancel (partial rollout), gather the rest.     *)
PauseLocked ==
  /\ Runs(Co("pause")) /\ pc["pause"] = "locked"
  /\ paused' = TRUE
  /\ IF PartialRollout THEN Goto("pause", "cancelling") /\ Suspend(<<>>)
                       ELSE Goto("pause", "gather") /\ GoOn(<<>>)
  /\ LockUnchanged
  /\ UNCHANGED <<flowVars, rolloutRunning, monitorLoopTrigger, restVars, rpc, mqVars>>

\* Every server and every agent-loop worker has been told to cancel.
ServersCancel ==
  /\ pc["pause"] = "cancelling"
  /\ serversPaused' = TRUE
  /\ task' = [s \in Samples |-> IF task[s] = "generating" THEN "interrupted" ELSE task[s]]
  /\ Goto("pause", "gather") /\ Wake(Co("pause")) /\ LockUnchanged
  /\ UNCHANGED <<pendingQueue, cancelQueue, hand, finished, failed, sampleVersion, modeVars,
                 stalenessSamples, rolloutVersion, globalSteps, doneBound, waitFor, snapshot,
                 rpc, mqVars>>

PauseGathers ==
  /\ Runs(Co("pause")) /\ pc["pause"] = "gather" /\ ActiveTasks > 0
  /\ IF Live = {} THEN Goto("pause", "gathered") /\ Suspend(<<Co("pause")>>)
                  ELSE Goto("pause", "gathering") /\ Suspend(<<>>)
  /\ LockUnchanged
  /\ UNCHANGED <<flowVars, modeVars, restVars, rpc, mqVars>>

\* All gathered (or none to gather): clear active_tasks, drop the tasks'
\* exceptions, and ask the servers to reset their prefix caches.
PauseGathered ==
  /\ Runs(Co("pause"))
  /\ pc["pause"] = "gathered" \/ (pc["pause"] = "gather" /\ ActiveTasks = 0)
  /\ finished' = 0 /\ failed' = {}
  /\ Goto("pause", "resetting") /\ Suspend(<<>>) /\ LockUnchanged
  /\ UNCHANGED <<pendingQueue, cancelQueue, hand, task, sampleVersion, modeVars, restVars,
                 rpc, mqVars>>

ServersReset ==
  /\ pc["pause"] = "resetting"
  /\ Goto("pause", "reset") /\ Wake(Co("pause")) /\ LockUnchanged
  /\ UNCHANGED <<flowVars, modeVars, restVars, rpc, mqVars>>

PauseReturns ==
  /\ Runs(Co("pause")) /\ pc["pause"] = "reset"
  /\ monitorLoopTrigger' = FALSE
  /\ Release /\ Suspend(NextOwner) /\ Goto("pause", "none") /\ Returns("pause")
  /\ UNCHANGED <<flowVars, paused, rolloutRunning, restVars, mqVars>>

\* Mutant: the version is not stored.
UpdateLocked_OldVersion ==
  /\ Runs(Co("update")) /\ pc["update"] = "locked"
  /\ snapshot' = ActiveTasks + Len(cancelQueue)
  /\ Goto("update", "sizing") /\ Suspend(<<>>) /\ LockUnchanged
  /\ UNCHANGED <<flowVars, modeVars, rolloutVersion, stalenessSamples, globalSteps, doneBound,
                 waitFor, serversPaused, rpc, mqVars>>

(* update_param_version(): the sum is begun before the queue is asked.     *)
UpdateLocked ==
  /\ Runs(Co("update")) /\ pc["update"] = "locked"
  /\ rolloutVersion' = mqVersion
  /\ snapshot' = ActiveTasks + Len(cancelQueue)
  /\ Goto("update", "sizing") /\ Suspend(<<>>) /\ LockUnchanged
  /\ UNCHANGED <<flowVars, modeVars, stalenessSamples, globalSteps, doneBound, waitFor,
                 serversPaused, rpc, mqVars>>

QueueSizeAnswers ==
  /\ pc["update"] = "sizing"
  /\ snapshot' = snapshot + Len(queue)
  /\ Goto("update", "sized") /\ Wake(Co("update")) /\ LockUnchanged
  /\ UNCHANGED <<flowVars, modeVars, stalenessSamples, rolloutVersion, globalSteps, doneBound,
                 waitFor, serversPaused, rpc, mqVars>>

UpdateResets ==
  /\ Runs(Co("update")) /\ pc["update"] = "sized"
  /\ stalenessSamples' = snapshot /\ snapshot' = 0
  /\ Goto("update", "reporting") /\ Suspend(<<>>) /\ LockUnchanged
  /\ UNCHANGED <<flowVars, modeVars, rolloutVersion, globalSteps, doneBound, waitFor,
                 serversPaused, rpc, mqVars>>

ValidationArrives ==
  /\ pc["update"] = "reporting"
  /\ MQ!PutValidate
  /\ Goto("update", "reported") /\ Wake(Co("update")) /\ LockUnchanged
  /\ UNCHANGED <<flowVars, modeVars, restVars, rpc>>

UpdateReturns ==
  /\ Runs(Co("update")) /\ pc["update"] = "reported"
  /\ Release /\ Suspend(NextOwner) /\ Goto("update", "none") /\ Returns("update")
  /\ UNCHANGED <<flowVars, modeVars, restVars, mqVars>>

(* resume(): the servers first, then the processor.                        *)
ResumeLocked ==
  /\ Runs(Co("resume")) /\ pc["resume"] = "locked"
  /\ IF PartialRollout THEN Goto("resume", "resuming") /\ Suspend(<<>>)
                       ELSE Goto("resume", "resumed") /\ GoOn(<<>>)
  /\ LockUnchanged
  /\ UNCHANGED <<flowVars, modeVars, restVars, rpc, mqVars>>

ServersResume ==
  /\ pc["resume"] = "resuming"
  /\ serversPaused' = FALSE
  /\ Goto("resume", "resumed") /\ Wake(Co("resume")) /\ LockUnchanged
  /\ UNCHANGED <<flowVars, modeVars, stalenessSamples, rolloutVersion, globalSteps, doneBound,
                 waitFor, snapshot, rpc, mqVars>>

ResumeReturns ==
  /\ Runs(Co("resume")) /\ pc["resume"] = "resumed"
  /\ paused' = FALSE /\ monitorLoopTrigger' = TRUE
  /\ Release /\ Suspend(WokenByNotify \o NextOwner)
  /\ pc' = [pc EXCEPT !["proc"] = Notified, !["resume"] = "none"]
  /\ Returns("resume")
  /\ UNCHANGED <<flowVars, rolloutRunning, restVars, mqVars>>
-----------------------------------------------------------------------------
(* _async_monitor_loop: every check_interval, undo a pause whose cause is  *)
(* gone, unless a synchronisation has switched the trigger off.            *)
MonitorAcquires ==
  /\ Runs(Co("monitor")) /\ pc["monitor"] = "check"
  /\ Acquire(Co("monitor")) /\ Goto("monitor", "locked")
  /\ UNCHANGED <<flowVars, modeVars, restVars, rpc, mqVars>>

MonitorChecks ==
  /\ Runs(Co("monitor")) /\ pc["monitor"] = "locked"
  /\ Release /\ Suspend(NextOwner)
  /\ Goto("monitor", IF rolloutRunning THEN "sleep" ELSE "done")
  /\ UNCHANGED <<flowVars, modeVars, restVars, rpc, mqVars>>

MonitorTimer ==
  /\ pc["monitor"] = "sleep"
  /\ Goto("monitor", "awake") /\ Wake(Co("monitor")) /\ LockUnchanged
  /\ UNCHANGED <<flowVars, modeVars, restVars, rpc, mqVars>>

MonitorDecides ==
  /\ Runs(Co("monitor")) /\ pc["monitor"] = "awake"
  /\ \/ /\ monitorLoopTrigger /\ ~ShouldPause
        /\ Acquire(Co("monitor")) /\ Goto("monitor", "unpause")
     \/ /\ ~monitorLoopTrigger \/ ShouldPause
        /\ Goto("monitor", "check") /\ GoOn(<<>>) /\ LockUnchanged
  /\ UNCHANGED <<flowVars, modeVars, restVars, rpc, mqVars>>

MonitorUnpauses ==
  /\ Runs(Co("monitor")) /\ pc["monitor"] = "unpause"
  /\ paused' = FALSE
  /\ Release /\ GoOn(WokenByNotify \o NextOwner)
  /\ pc' = [pc EXCEPT !["proc"] = Notified, !["monitor"] = "check"]
  /\ UNCHANGED <<flowVars, rolloutRunning, monitorLoopTrigger, restVars, rpc, mqVars>>
-----------------------------------------------------------------------------
\* What the event loop runs next.
Monitor == \/ MonitorAcquires \/ MonitorChecks \/ MonitorDecides \/ MonitorUnpauses
LoopStep ==
  \/ MainStart \/ MainWoken \/ MainAcquires \/ MainStops
  \/ FeedPut \/ FeedBlocks
  \/ Processor
  \/ Monitor
  \/ \E s \in Samples : TaskStarts(s) \/ TaskCompletes(s) \/ TaskEnds(s)
  \/ \E c \in Calls : CallAcquires(c)
  \/ PauseLocked \/ PauseGathers \/ PauseGathered \/ PauseReturns
  \/ UpdateLocked \/ UpdateResets \/ UpdateReturns
  \/ ResumeLocked \/ ResumeReturns

\* What arrives from other processes.
Generation(s) == ServerAccepts(s) \/ GenerationEnds(s) \/ PutArrives(s)
Arrival ==
  \/ \E s \in Samples : Generation(s)
  \/ \E c \in Calls : CallArrives(c)
  \/ ServersCancel \/ ServersReset \/ ServersResume
  \/ QueueSizeAnswers \/ ValidationArrives \/ FinishSignalArrives

RolloutNext == LoopStep \/ Arrival \/ MonitorTimer
=============================================================================
