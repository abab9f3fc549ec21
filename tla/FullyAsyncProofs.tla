-------------------------- MODULE FullyAsyncProofs --------------------------
(***************************************************************************)
(* What the synchronisation of Rollouter, message queue and Trainer in     *)
(* FullyAsync guarantees, for every number of samples, every configuration *)
(* and every order of the event loop, of calls and of answers, from the    *)
(* invariants of FullyAsyncInvariants.                                     *)
(***************************************************************************)
EXTENDS FullyAsyncInvariants, FiniteSetTheorems, SequenceTheorems, TLAPS
-----------------------------------------------------------------------------
(* Most steps leave the synchronisation alone.                             *)

CallsStay ==
  /\ UNCHANGED <<rpc, trainVars, mqVersion, rolloutVersion, serversPaused>>
  /\ pc' = [n \in Names |-> pc'[n]] /\ task' = [s \in Samples |-> task'[s]]

\* A step of another coroutine, in which pause() may see its last task end.
Aside ==
  /\ CallsStay
  /\ pc'["update"] = pc["update"] /\ pc'["resume"] = pc["resume"]
  /\ \/ pc'["pause"] = pc["pause"]
     \/ pc["pause"] = "gathering" /\ pc'["pause"] = "gathered"
  /\ \A s \in Samples : task'[s] = "generating" =>
       task[s] = "generating" \/ (task[s] = "sent" /\ ~serversPaused)
  /\ Begun => Begun'

LEMMA InitSync == Init => SyncInv /\ Silenced
BY DEF Init, RolloutInit, SharedInit, TrainInit, SyncInv, Silenced, SyncType, CallsInOrder,
       VersionsAt, Untold, Begun, Calls, Names, LastSyncOver

LEMMA AsideKeeps ==
  ASSUME Aside
  PROVE  (SyncInv => SyncInv') /\ (SyncInv /\ Silenced => Silenced')
<1> USE DEF Aside, CallsStay, trainVars, stepVars, Calls
<1>1. ASSUME SyncInv PROVE SyncInv'
  <2>1. SyncType'  BY <1>1 DEF SyncInv, SyncType
  <2>2. \A c \in Calls : pc'[c] = "none" <=> pc[c] = "none"  OBVIOUS
  <2>3. CallsInOrder'  BY <1>1, <2>2 DEF SyncInv, CallsInOrder, LastSyncOver
  <2>4. VersionsAt'  BY <1>1 DEF SyncInv, VersionsAt, Untold
  <2> QED  BY <1>1, <2>1, <2>3, <2>4 DEF SyncInv
<1>2. ASSUME Silenced PROVE Silenced'  BY <1>2 DEF Silenced
<1> QED  BY <1>1, <1>2

LEMMA StreamingAside ==
  ASSUME SyncType, UNCHANGED trainVars,
         MainStart \/ MainWoken \/ MainAcquires \/ MainStops \/ FeedPut \/ FeedBlocks \/ FinishSignalArrives
  PROVE  Aside
<1> USE DEF SyncType, Aside, CallsStay, Begun, Goto, Names, flowVars, modeVars, restVars, mqVars
<1>1. CASE MainStart  BY <1>1 DEF MainStart
<1>2. CASE MainWoken  BY <1>2 DEF MainWoken, AfterWorkers
<1>3. CASE MainAcquires  BY <1>3 DEF MainAcquires
<1>4. CASE MainStops  BY <1>4 DEF MainStops
<1>5. CASE FeedPut  BY <1>5 DEF FeedPut
<1>6. CASE FeedBlocks  BY <1>6 DEF FeedBlocks
<1>7. CASE FinishSignalArrives  BY <1>7 DEF FinishSignalArrives
<1> QED  BY <1>1, <1>2, <1>3, <1>4, <1>5, <1>6, <1>7

LEMMA ProcessorAside ==
  ASSUME SyncType, UNCHANGED trainVars, Processor
  PROVE  Aside
<1> USE DEF SyncType, Aside, CallsStay, Begun, Goto, EndWorker, Names, flowVars, modeVars, restVars, mqVars
<1>1. CASE ProcPauses  BY <1>1 DEF ProcPauses
<1>2. CASE ProcSetsPaused  BY <1>2 DEF ProcSetsPaused
<1>3. CASE ProcTakesCancelled  BY <1>3 DEF ProcTakesCancelled
<1>4. CASE ProcTakes  BY <1>4 DEF ProcTakes
<1>5. CASE ProcAwaitsSample  BY <1>5 DEF ProcAwaitsSample
<1>6. CASE ProcLoopEnds  BY <1>6 DEF ProcLoopEnds
<1>7. CASE ProcLoopAcquires  BY <1>7 DEF ProcLoopAcquires
<1>8. CASE ProcWaits  BY <1>8 DEF ProcWaits
<1>9. CASE ProcSkipsWait  BY <1>9 DEF ProcSkipsWait
<1>10. CASE ProcReaps  BY <1>10 DEF ProcReaps
<1>11. CASE ProcIdles  BY <1>11 DEF ProcIdles
<1>12. CASE ProcHoldsBack  BY <1>12 DEF ProcHoldsBack
<1>13. CASE ProcSubmits  BY <1>13 DEF ProcSubmits
<1>14. CASE ProcNotified  BY <1>14 DEF ProcNotified
<1> QED
  BY <1>1, <1>2, <1>3, <1>4, <1>5, <1>6, <1>7, <1>8, <1>9, <1>10, <1>11, <1>12, <1>13, <1>14
  DEF Processor

LEMMA MonitorAside ==
  ASSUME SyncType, UNCHANGED trainVars, Monitor \/ MonitorTimer
  PROVE  Aside
<1> USE DEF SyncType, Aside, CallsStay, Begun, Goto, Names, flowVars, modeVars, restVars, mqVars
<1>1. CASE MonitorAcquires  BY <1>1 DEF MonitorAcquires
<1>2. CASE MonitorChecks  BY <1>2 DEF MonitorChecks
<1>3. CASE MonitorDecides  BY <1>3 DEF MonitorDecides
<1>4. CASE MonitorUnpauses  BY <1>4 DEF MonitorUnpauses, Notified
<1>5. CASE MonitorTimer  BY <1>5 DEF MonitorTimer
<1> QED  BY <1>1, <1>2, <1>3, <1>4, <1>5 DEF Monitor

LEMMA TaskAside ==
  ASSUME SyncType, UNCHANGED trainVars, NEW s \in Samples,
         TaskStarts(s) \/ TaskCompletes(s) \/ TaskEnds(s) \/ Generation(s)
  PROVE  Aside
<1> USE DEF SyncType, Aside, CallsStay, Begun, Names, flowVars, modeVars, restVars, mqVars
<1>1. CASE TaskStarts(s)  BY <1>1 DEF TaskStarts
<1>2. CASE TaskCompletes(s)  BY <1>2 DEF TaskCompletes
<1>3. CASE TaskEnds(s)  BY <1>3 DEF TaskEnds, PcAfterTaskEnd, EndsGather
<1>4. CASE ServerAccepts(s)  BY <1>4 DEF ServerAccepts, Accepted
<1>5. CASE GenerationEnds(s)  BY <1>5 DEF GenerationEnds
<1>6. CASE PutArrives(s)  BY <1>6 DEF PutArrives
<1> QED  BY <1>1, <1>2, <1>3, <1>4, <1>5, <1>6 DEF Generation
-----------------------------------------------------------------------------
(* The calls, and the servers they reach.                                  *)

LEMMA CallKeeps ==
  ASSUME SyncInv, UNCHANGED trainVars, NEW c \in Calls, CallArrives(c) \/ CallAcquires(c)
  PROVE  SyncInv' /\ (Silenced => Silenced')
<1> USE DEF SyncInv, SyncType, CallsInOrder, VersionsAt, Begun, Untold, LastSyncOver, Silenced, Goto, Names, Calls,
            trainVars, stepVars, flowVars, modeVars, restVars, mqVars
<1>1. CASE CallArrives(c)
  <2>1. /\ rpc[c] = "sent" /\ (c = "resume" => rpc["update"] = "done")
        /\ rpc' = [rpc EXCEPT ![c] = "running"] /\ pc' = [pc EXCEPT ![c] = "start"]
        /\ UNCHANGED <<task, mqVersion, rolloutVersion, serversPaused>>
    BY <1>1 DEF CallArrives
  <2>2. SyncType' /\ Begun' /\ VersionsAt'  BY <2>1
  <2>3. CallsInOrder'  BY <2>1
  <2>4. Silenced => Silenced'  BY <2>1
  <2> QED  BY <2>2, <2>3, <2>4
<1>2. CASE CallAcquires(c)  BY <1>2 DEF CallAcquires
<1> QED  BY <1>1, <1>2

LEMMA PauseKeeps ==
  ASSUME SyncInv, UNCHANGED trainVars,
         \/ PauseLocked \/ ServersCancel \/ PauseGathers \/ PauseGathered \/ ServersReset \/ PauseReturns
  PROVE  SyncInv' /\ (PartialRollout /\ Silenced => Silenced')
<1> USE DEF SyncInv, SyncType, CallsInOrder, VersionsAt, Begun, Untold, LastSyncOver, Silenced, Goto, Names, Calls,
            trainVars, stepVars, flowVars, modeVars, restVars, mqVars
<1>1. CASE PauseLocked  BY <1>1 DEF PauseLocked
<1>2. CASE ServersCancel  BY <1>2 DEF ServersCancel
<1>3. CASE PauseGathers  BY <1>3 DEF PauseGathers
<1>4. CASE PauseGathered  BY <1>4 DEF PauseGathered
<1>5. CASE ServersReset  BY <1>5 DEF ServersReset
<1>6. CASE PauseReturns  BY <1>6 DEF PauseReturns, Returns
<1> QED  BY <1>1, <1>2, <1>3, <1>4, <1>5, <1>6

LEMMA UpdateKeeps ==
  ASSUME SyncInv, UNCHANGED trainVars,
         \/ UpdateLocked \/ QueueSizeAnswers \/ UpdateResets \/ ValidationArrives \/ UpdateReturns
  PROVE  SyncInv' /\ (Silenced => Silenced')
<1> USE DEF SyncInv, SyncType, CallsInOrder, VersionsAt, Begun, Untold, LastSyncOver, Silenced, Goto, Names, Calls,
            trainVars, stepVars, flowVars, modeVars, restVars, mqVars
<1>1. CASE UpdateLocked  BY <1>1 DEF UpdateLocked
<1>2. CASE QueueSizeAnswers  BY <1>2 DEF QueueSizeAnswers
<1>3. CASE UpdateResets  BY <1>3 DEF UpdateResets
<1>4. CASE ValidationArrives  BY <1>4 DEF ValidationArrives, MQ!PutValidate, MQ!statistics
<1>5. CASE UpdateReturns  BY <1>5 DEF UpdateReturns, Returns
<1> QED  BY <1>1, <1>2, <1>3, <1>4, <1>5

LEMMA ResumeKeeps ==
  ASSUME SyncInv, UNCHANGED trainVars, ResumeLocked \/ ServersResume \/ ResumeReturns
  PROVE  SyncInv' /\ (Silenced => Silenced')
<1> USE DEF SyncInv, SyncType, CallsInOrder, VersionsAt, Begun, Untold, LastSyncOver, Silenced, Goto, Names, Calls,
            trainVars, stepVars, flowVars, modeVars, restVars, mqVars
<1>1. CASE ResumeLocked  BY <1>1 DEF ResumeLocked
<1>2. CASE ServersResume  BY <1>2 DEF ServersResume
<1>3. CASE ResumeReturns  BY <1>3 DEF ResumeReturns, Returns, Notified
<1> QED  BY <1>1, <1>2, <1>3

LEMMA TrainKeeps ==
  ASSUME SyncInv, UNCHANGED rolloutVars, TrainNext
  PROVE  SyncInv' /\ (Silenced => Silenced')
<1> USE DEF SyncInv, SyncType, CallsInOrder, VersionsAt, Begun, Untold, LastSyncOver, Silenced, Names, Calls,
            trainVars, stepVars, rolloutVars, flowVars, modeVars, restVars, mqVars, MQ!statistics
<1>1. CASE LogValidation  BY <1>1 DEF LogValidation, LogLabels, AfterLog, MQ!GetValidate
<1>2. CASE CollectWaits  BY <1>2 DEF CollectWaits, MQ!GetSampleWaits
<1>3. CASE Collect  BY <1>3 DEF Collect, MQ!GetSample
<1>4. CASE TrainStep  BY <1>4 DEF TrainStep, NewVersion
<1>5. CASE SyncPauses  BY <1>5 DEF SyncPauses
<1>6. CASE SyncVersions  BY <1>6 DEF SyncVersions, MQ!UpdateParamVersion
<1>7. CASE SyncTransfers  BY <1>7 DEF SyncTransfers
<1>8. CASE SaveCheckpoint  BY <1>8 DEF SaveCheckpoint
<1>9. CASE LastWait  BY <1>9 DEF LastWait
<1>10. CASE DecideExtraSync  BY <1>10 DEF DecideExtraSync, NewVersion
<1> QED  BY <1>1, <1>2, <1>3, <1>4, <1>5, <1>6, <1>7, <1>8, <1>9, <1>10 DEF TrainNext

LEMMA NextSync ==
  ASSUME SyncInv, [Next]_vars
  PROVE  SyncInv' /\ (PartialRollout /\ Silenced => Silenced')
<1>0. SyncType  BY DEF SyncInv
<1>1. CASE Rollout
  <2>1. UNCHANGED trainVars /\ (LoopStep \/ Arrival \/ MonitorTimer)  BY <1>1 DEF Rollout, RolloutNext
  <2>2. CASE Aside  BY <2>2, AsideKeeps
  <2>3. CASE LoopStep
    <3>1. CASE MainStart \/ MainWoken \/ MainAcquires \/ MainStops \/ FeedPut \/ FeedBlocks
      BY <3>1, <2>1, <1>0, <2>2, StreamingAside
    <3>2. CASE Processor  BY <3>2, <2>1, <1>0, <2>2, ProcessorAside
    <3>3. CASE Monitor  BY <3>3, <2>1, <1>0, <2>2, MonitorAside
    <3>4. CASE \E s \in Samples : TaskStarts(s) \/ TaskCompletes(s) \/ TaskEnds(s)
      BY <3>4, <2>1, <1>0, <2>2, TaskAside
    <3>5. CASE \E c \in Calls : CallAcquires(c)  BY <3>5, <2>1, CallKeeps
    <3>6. CASE PauseLocked \/ PauseGathers \/ PauseGathered \/ PauseReturns
      BY <3>6, <2>1, PauseKeeps
    <3>7. CASE UpdateLocked \/ UpdateResets \/ UpdateReturns  BY <3>7, <2>1, UpdateKeeps
    <3>8. CASE ResumeLocked \/ ResumeReturns  BY <3>8, <2>1, ResumeKeeps
    <3> QED  BY <2>3, <3>1, <3>2, <3>3, <3>4, <3>5, <3>6, <3>7, <3>8 DEF LoopStep
  <2>4. CASE Arrival
    <3>1. CASE \E s \in Samples : Generation(s)  BY <3>1, <2>1, <1>0, <2>2, TaskAside
    <3>2. CASE \E c \in Calls : CallArrives(c)  BY <3>2, <2>1, CallKeeps
    <3>3. CASE ServersCancel \/ ServersReset  BY <3>3, <2>1, PauseKeeps
    <3>4. CASE QueueSizeAnswers \/ ValidationArrives  BY <3>4, <2>1, UpdateKeeps
    <3>5. CASE ServersResume  BY <3>5, <2>1, ResumeKeeps
    <3>6. CASE FinishSignalArrives  BY <3>6, <2>1, <1>0, <2>2, StreamingAside
    <3> QED  BY <2>4, <3>1, <3>2, <3>3, <3>4, <3>5, <3>6 DEF Arrival
  <2>5. CASE MonitorTimer  BY <2>5, <2>1, <1>0, <2>2, MonitorAside
  <2> QED  BY <2>1, <2>3, <2>4, <2>5
<1>2. CASE Train  BY <1>2, TrainKeeps DEF Train
<1>3. CASE RunnerClears
  <2>1. Aside
    BY <1>0, <1>3 DEF RunnerClears, Aside, Begun, CallsStay, SyncType, MQ!ClearQueue, mqVars, rolloutVars,
                      flowVars, restVars
  <2> QED  BY <2>1, AsideKeeps
<1>4. CASE UNCHANGED vars
  <2>1. Aside  BY <1>0, <1>4 DEF Aside, Begun, CallsStay, SyncType, vars, mqVars, rolloutVars, flowVars, restVars
  <2> QED  BY <2>1, AsideKeeps
<1> QED  BY <1>1, <1>2, <1>3, <1>4 DEF Next, Terminated

\* The version reaches Trainer, message queue and rollouter in that order, and
\* no process is two versions behind the next, whatever call or answer is late:
\* sync_weights (param_sync.py) and wait_last_valid.
THEOREM VersionsHold == Spec => []Versions
<1>1. SyncInv => Versions  BY DEF SyncInv, SyncType, VersionsAt, Versions
<1> QED  BY InitSync, NextSync, <1>1, PTL DEF Spec

\* With partial rollout no server generates while its weights are replaced: the
\* servers refuse what arrives late, and resume() comes after the transfer.
THEOREM TransferQuietHolds == ASSUME PartialRollout PROVE Spec => []TransferQuiet
<1>1. SyncInv /\ Silenced => TransferQuiet
  BY DEF SyncInv, CallsInOrder, Silenced, TransferQuiet
<1>2. SyncInv /\ Silenced /\ [Next]_vars => SyncInv' /\ Silenced'  BY NextSync
<1> QED  BY InitSync, <1>1, <1>2, PTL DEF Spec
-----------------------------------------------------------------------------
(* The run queue and the lock of the Rollouter's event loop.               *)

\* w is a queue of coroutines, W those of the named ones that are in it.
Wakes(w, W) == /\ w \in Seq(Coroutines)
               /\ \A m \in Names : Once(w, Co(m)) /\ (In(w, Co(m)) <=> m \in W)

\* The coroutines in W are woken where they are, the others but n stay.
Resumed(W, n) == \A m \in Names \ {n} :
  IF m \in W THEN /\ Suspended(m, pc[m]) /\ ~Suspended(m, pc'[m])
                  /\ Holding(m, pc'[m]) <=> Holding(m, pc[m])
             ELSE pc'[m] = pc[m]

LEMMA Distinct ==
  /\ \A n, m \in Names : Co(n) = Co(m) => n = m
  /\ \A n \in Names : Co(n) /= Nobody
  /\ \A n \in Names, s \in Samples : Co(n) /= Task(s)
  /\ \A s, t \in Samples : Task(s) = Task(t) => s = t
BY DEF Co, Task, Nobody, Names

LEMMA EnteringAwake ==
  \A n \in Names : \A l : (Entering(n, l) => ~Suspended(n, l)) /\ (Entering(n, l) => Holding(n, l))
BY DEF Entering, Suspended, Holding, Names, Calls

LEMMA WakesNone == Wakes(<<>>, {})
BY DEF Wakes, In, Once

LEMMA WakesOne == \A m \in Names : Wakes(<<Co(m)>>, {m})
BY Distinct DEF Wakes, In, Once, Coroutines

LEMMA WakesTwo == \A m, k \in Names : m /= k => Wakes(<<Co(m), Co(k)>>, {m, k})
<1> SUFFICES ASSUME NEW m \in Names, NEW k \in Names, m /= k PROVE Wakes(<<Co(m), Co(k)>>, {m, k})
  OBVIOUS
<1> DEFINE w == <<Co(m), Co(k)>>
<1>1. w \in Seq(Coroutines) /\ Len(w) = 2 /\ w[1] = Co(m) /\ w[2] = Co(k)  BY DEF Coroutines
<1>2. Co(m) /= Co(k)  BY Distinct
<1> HIDE DEF w
<1>3. ASSUME NEW n \in Names PROVE Once(w, Co(n)) /\ (In(w, Co(n)) <=> n \in {m, k})
  <2>1. (Co(n) = Co(m) <=> n = m) /\ (Co(n) = Co(k) <=> n = k)  BY Distinct
  <2> QED  BY <1>1, <1>2, <2>1 DEF In, Once
<1>4. Wakes(w, {m, k})  BY <1>1, <1>3 DEF Wakes
<1> QED  BY <1>4 DEF w

LEMMA WakesTask == \A s \in Samples : Wakes(<<Task(s)>>, {})
BY Distinct DEF Wakes, In, Once, Coroutines

LEMMA Joined ==
  ASSUME NEW S, NEW v \in Seq(S), NEW w \in Seq(S), NEW c
  PROVE  /\ v \o w \in Seq(S)
         /\ In(v \o w, c) <=> In(v, c) \/ In(w, c)
         /\ Once(v, c) /\ Once(w, c) /\ ~(In(v, c) /\ In(w, c)) => Once(v \o w, c)
<1> DEFINE q == v \o w
<1>1. /\ q \in Seq(S) /\ Len(q) = Len(v) + Len(w) /\ Len(v) \in Nat /\ Len(w) \in Nat
      /\ \A i \in 1 .. Len(q) : q[i] = IF i <= Len(v) THEN v[i] ELSE w[i - Len(v)]
  BY ConcatProperties, LenProperties
<1> HIDE DEF q
<1>2. \A i \in 1 .. Len(v) : i \in 1 .. Len(q) /\ q[i] = v[i]  BY <1>1
<1>3. ASSUME NEW i \in 1 .. Len(w) PROVE i + Len(v) \in 1 .. Len(q) /\ q[i + Len(v)] = w[i]
  <2>1. i + Len(v) \in 1 .. Len(q) /\ ~(i + Len(v) <= Len(v)) /\ (i + Len(v)) - Len(v) = i  BY <1>1
  <2> QED  BY <1>1, <2>1
<1>4. \A i \in 1 .. Len(q) : \/ i \in 1 .. Len(v) /\ q[i] = v[i]
                             \/ /\ i - Len(v) \in 1 .. Len(w) /\ q[i] = w[i - Len(v)]
                                /\ i \in Nat
  BY <1>1
<1>5. In(q, c) <=> In(v, c) \/ In(w, c)  BY <1>2, <1>3, <1>4 DEF In
<1>6. ASSUME Once(v, c), Once(w, c), ~(In(v, c) /\ In(w, c)) PROVE Once(q, c)
  <2> SUFFICES ASSUME NEW i \in 1 .. Len(q), NEW j \in 1 .. Len(q), q[i] = c, q[j] = c PROVE i = j
    BY DEF Once
  <2>1. CASE i \in 1 .. Len(v) /\ q[i] = v[i] /\ j \in 1 .. Len(v) /\ q[j] = v[j]
    BY <1>6, <2>1 DEF Once
  <2>2. CASE i - Len(v) \in 1 .. Len(w) /\ q[i] = w[i - Len(v)] /\ j - Len(v) \in 1 .. Len(w) /\ q[j] = w[j - Len(v)]
    <3>1. i - Len(v) = j - Len(v)  BY <1>6, <2>2 DEF Once
    <3> QED  BY <1>1, <3>1
  <2>3. CASE In(v, c) /\ In(w, c)  BY <1>6, <2>3
  <2> QED  BY <1>4, <2>1, <2>2, <2>3 DEF In
<1> QED  BY <1>1, <1>5, <1>6 DEF q

LEMMA HeadLeaves ==
  ASSUME NEW S, NEW q \in Seq(S), q /= <<>>, NEW c
  PROVE  /\ Tail(q) \in Seq(S) /\ Head(q) \in S /\ In(q, Head(q))
         /\ Once(q, c) => Once(Tail(q), c) /\ (In(Tail(q), c) <=> In(q, c) /\ c /= Head(q))
<1> DEFINE t == Tail(q)
<1>1. /\ t \in Seq(S) /\ Head(q) \in S /\ Len(q) \in Nat /\ Len(t) \in Nat /\ Len(q) = Len(t) + 1
      /\ Head(q) = q[1] /\ \A i \in 1 .. Len(t) : t[i] = q[i + 1]
  BY HeadTailProperties, LenProperties
<1> HIDE DEF t
<1>2. \A i \in 1 .. Len(t) : i + 1 \in 1 .. Len(q) /\ i \in Nat  BY <1>1
<1>3. \A i \in 1 .. Len(q) : i = 1 \/ (i - 1 \in 1 .. Len(t) /\ t[i - 1] = q[i])  BY <1>1
<1>4. 1 \in 1 .. Len(q)  BY <1>1
<1>5. In(q, Head(q))  BY <1>1, <1>4 DEF In
<1>6. ASSUME Once(q, c) PROVE Once(t, c) /\ (In(t, c) <=> In(q, c) /\ c /= Head(q))
  <2>1. Once(t, c)  BY <1>1, <1>2, <1>6, SMTT(60) DEF Once
  <2>2. ASSUME In(t, c) PROVE In(q, c) /\ c /= Head(q)
    <3>1. PICK i \in 1 .. Len(t) : t[i] = c  BY <2>2 DEF In
    <3>2. q[i + 1] = c /\ i + 1 \in 1 .. Len(q) /\ i + 1 /= 1  BY <1>1, <1>2, <3>1
    <3> QED  BY <1>1, <1>4, <1>6, <3>2 DEF In, Once
  <2>3. In(q, c) /\ c /= Head(q) => In(t, c)  BY <1>1, <1>3 DEF In
  <2> QED  BY <2>1, <2>2, <2>3
<1> QED  BY <1>1, <1>5, <1>6 DEF t

LEMMA WakesBoth ==
  ASSUME NEW v, NEW V, NEW w, NEW W, Wakes(v, V), Wakes(w, W), V \intersect W = {}
  PROVE  Wakes(v \o w, V \union W)
<1> SUFFICES ASSUME NEW m \in Names PROVE /\ v \o w \in Seq(Coroutines) /\ Once(v \o w, Co(m))
                                          /\ In(v \o w, Co(m)) <=> m \in V \union W
  BY Joined DEF Wakes
<1>1. v \in Seq(Coroutines) /\ w \in Seq(Coroutines)  BY DEF Wakes
<1>2. /\ Once(v, Co(m)) /\ Once(w, Co(m))
      /\ In(v, Co(m)) <=> m \in V
      /\ In(w, Co(m)) <=> m \in W
  BY DEF Wakes
<1> QED  BY <1>1, <1>2, Joined

\* The run queue, when its head goes on or leaves it.
LEMMA ReadyGrows ==
  ASSUME LockInv, NEW w, NEW W, Wakes(w, W), \A m \in Names : m \in W => ~In(ready, Co(m))
  PROVE  /\ ready \o w \in Seq(Coroutines)
         /\ \A m \in Names : /\ Once(ready \o w, Co(m))
                             /\ In(ready \o w, Co(m)) <=> In(ready, Co(m)) \/ m \in W
<1>1. ready \in Seq(Coroutines) /\ w \in Seq(Coroutines)  BY DEF LockInv, Wakes
<1>2. ASSUME NEW m \in Names
      PROVE  /\ Once(ready \o w, Co(m))
             /\ In(ready \o w, Co(m)) <=> In(ready, Co(m)) \/ m \in W
  <2>1. Once(ready, Co(m)) /\ Once(w, Co(m)) /\ (In(w, Co(m)) <=> m \in W)  BY DEF LockInv, Wakes
  <2> QED  BY <1>1, <2>1, Joined
<1> QED  BY <1>1, <1>2, Joined

LEMMA ReadyShifts ==
  ASSUME LockInv, NEW w, NEW W, Wakes(w, W), ready /= <<>>,
         \A m \in Names : m \in W => ~In(ready, Co(m)) \/ Head(ready) = Co(m)
  PROVE  /\ Tail(ready) \o w \in Seq(Coroutines)
         /\ \A m \in Names :
              /\ Once(Tail(ready) \o w, Co(m))
              /\ In(Tail(ready) \o w, Co(m)) <=> m \in W \/ (In(ready, Co(m)) /\ Head(ready) /= Co(m))
<1>1. ready \in Seq(Coroutines) /\ w \in Seq(Coroutines) /\ Tail(ready) \in Seq(Coroutines)
  BY HeadLeaves DEF LockInv, Wakes
<1>2. ASSUME NEW m \in Names
      PROVE  /\ Once(Tail(ready) \o w, Co(m))
             /\ In(Tail(ready) \o w, Co(m)) <=> m \in W \/ (In(ready, Co(m)) /\ Head(ready) /= Co(m))
  <2>1. Once(ready, Co(m)) /\ Once(w, Co(m)) /\ (In(w, Co(m)) <=> m \in W)  BY DEF LockInv, Wakes
  <2>2. Once(Tail(ready), Co(m)) /\ (In(Tail(ready), Co(m)) <=> In(ready, Co(m)) /\ Co(m) /= Head(ready))
    BY <1>1, <2>1, HeadLeaves
  <2> QED  BY <1>1, <2>1, <2>2, Joined
<1> QED  BY <1>1, <1>2, Joined

\* Who runs is awake and not in the lock's queue.
LEMMA RunsAwake ==
  ASSUME LockInv, NEW n \in Names, Runs(Co(n))
  PROVE  /\ ready /= <<>> /\ Head(ready) = Co(n) /\ In(ready, Co(n))
         /\ ~Suspended(n, pc[n]) /\ ~In(lockQueue, Co(n))
         /\ Holding(n, pc[n]) <=> holder = Co(n)
<1>1. ready /= <<>> /\ Head(ready) = Co(n)  BY DEF Runs
<1>2. In(ready, Co(n))  BY <1>1, HeadLeaves DEF LockInv
<1> QED  BY <1>1, <1>2 DEF LockInv

\* A step that leaves the lock alone.
LEMMA SameLock ==
  ASSUME LockInv, LockUnchanged, NEW n, NEW W, Resumed(W, n), ready' \in Seq(Coroutines),
         \A m \in Names : Once(ready', Co(m)),
         \A m \in Names \ {n} : In(ready', Co(m)) <=> In(ready, Co(m)) \/ m \in W,
         n \in Names => /\ ~In(lockQueue, Co(n))
                        /\ In(ready', Co(n)) <=> ~Suspended(n, pc'[n])
                        /\ Holding(n, pc'[n]) <=> Holding(n, pc[n])
  PROVE  LockInv'
<1>1. UNCHANGED <<holder, lockQueue>>  BY DEF LockUnchanged
<1>2. ASSUME NEW m \in Names
      PROVE  /\ In(ready', Co(m)) <=> ~Suspended(m, pc'[m]) /\ ~In(lockQueue, Co(m))
             /\ In(lockQueue, Co(m)) => Entering(m, pc'[m]) /\ holder /= Co(m)
             /\ Holding(m, pc'[m]) <=> holder = Co(m) \/ In(lockQueue, Co(m))
  <2>1. /\ In(ready, Co(m)) <=> ~Suspended(m, pc[m]) /\ ~In(lockQueue, Co(m))
        /\ In(lockQueue, Co(m)) => Entering(m, pc[m]) /\ holder /= Co(m)
        /\ Holding(m, pc[m]) <=> holder = Co(m) \/ In(lockQueue, Co(m))
    BY DEF LockInv
  <2>2. CASE m = n  BY <2>1, <2>2
  <2>3. CASE m /= n /\ m \in W
    <3>1. Suspended(m, pc[m]) /\ ~Suspended(m, pc'[m]) /\ (Holding(m, pc'[m]) <=> Holding(m, pc[m]))
      BY <2>3 DEF Resumed
    <3>2. ~In(lockQueue, Co(m))  BY <2>1, <3>1, EnteringAwake
    <3> QED  BY <2>1, <2>3, <3>1, <3>2
  <2>4. CASE m /= n /\ m \notin W
    <3>1. pc'[m] = pc[m]  BY <2>4 DEF Resumed
    <3> QED  BY <2>1, <2>4, <3>1
  <2> QED  BY <2>2, <2>3, <2>4
<1> QED  BY <1>1, <1>2 DEF LockInv

\* Those that are woken were not in the run queue.
LEMMA SuspendedAway ==
  ASSUME LockInv, NEW n, NEW W, Resumed(W, n)
  PROVE  \A m \in Names \ {n} : m \in W => ~In(ready, Co(m)) /\ ~In(lockQueue, Co(m))
BY EnteringAwake DEF LockInv, Resumed

\* The running coroutine goes on, or suspends and leaves the run queue.
LEMMA GoesOn ==
  ASSUME LockInv, LockUnchanged, NEW n \in Names, Runs(Co(n)), NEW w, NEW W, Wakes(w, W), n \notin W,
         Resumed(W, n), GoOn(w), ~Suspended(n, pc'[n]), Holding(n, pc'[n]) <=> Holding(n, pc[n])
  PROVE  LockInv'
<1>1. \A m \in Names : m \in W => ~In(ready, Co(m))  BY SuspendedAway
<1>2. /\ ready' \in Seq(Coroutines)
      /\ \A m \in Names : Once(ready', Co(m)) /\ (In(ready', Co(m)) <=> In(ready, Co(m)) \/ m \in W)
  BY <1>1, ReadyGrows DEF GoOn
<1> QED  BY <1>2, RunsAwake, SameLock

LEMMA Sleeps ==
  ASSUME LockInv, LockUnchanged, NEW n \in Names, Runs(Co(n)), NEW w, NEW W, Wakes(w, W),
         Resumed(W, n), Suspend(w), Suspended(n, pc'[n]) <=> n \notin W, Holding(n, pc'[n]) <=> Holding(n, pc[n])
  PROVE  LockInv'
<1>1. ready /= <<>> /\ Head(ready) = Co(n)  BY RunsAwake
<1>2. \A m \in Names : m \in W => ~In(ready, Co(m)) \/ Head(ready) = Co(m)  BY <1>1, SuspendedAway
<1>3. /\ ready' \in Seq(Coroutines)
      /\ \A m \in Names : /\ Once(ready', Co(m))
                          /\ In(ready', Co(m)) <=> m \in W \/ (In(ready, Co(m)) /\ Head(ready) /= Co(m))
  BY <1>1, <1>2, ReadyShifts DEF Suspend
<1>4. \A m \in Names \ {n} : In(ready', Co(m)) <=> In(ready, Co(m)) \/ m \in W
  BY <1>1, <1>3, Distinct
<1>5. In(ready', Co(n)) <=> ~Suspended(n, pc'[n])  BY <1>1, <1>3
<1> QED  BY <1>3, <1>4, <1>5, RunsAwake, SameLock

\* A generation task runs and leaves the run queue.
LEMMA TaskLeaves ==
  ASSUME LockInv, LockUnchanged, NEW s \in Samples, Runs(Task(s)), NEW w, NEW W, Wakes(w, W),
         Resumed(W, "nobody"), Suspend(w)
  PROVE  LockInv'
<1>0. "nobody" \notin Names  BY DEF Names
<1>1. ready /= <<>> /\ Head(ready) = Task(s)  BY DEF Runs
<1>2. \A m \in Names : m \in W => ~In(ready, Co(m))
  <2> PICK x : x = "nobody"  OBVIOUS
  <2> QED  BY <1>0, SuspendedAway
<1>3. /\ ready' \in Seq(Coroutines)
      /\ \A m \in Names : /\ Once(ready', Co(m))
                          /\ In(ready', Co(m)) <=> m \in W \/ (In(ready, Co(m)) /\ Head(ready) /= Co(m))
  BY <1>1, <1>2, ReadyShifts DEF Suspend
<1>4. \A m \in Names : In(ready', Co(m)) <=> In(ready, Co(m)) \/ m \in W
  BY <1>1, <1>3, Distinct
<1> PICK n : n = "nobody"  OBVIOUS
<1>5. Resumed(W, n) /\ n \notin Names  BY <1>0
<1> QED  BY <1>3, <1>4, <1>5, SameLock

\* An answer, a call or the timer wakes a coroutine from outside.
LEMMA Arrives ==
  ASSUME LockInv, LockUnchanged, NEW w, NEW W, Wakes(w, W), Resumed(W, "nobody"), ready' = ready \o w
  PROVE  LockInv'
<1>0. "nobody" \notin Names  BY DEF Names
<1> PICK n : n = "nobody"  OBVIOUS
<1>1. Resumed(W, n) /\ n \notin Names  BY <1>0
<1>2. \A m \in Names : m \in W => ~In(ready, Co(m))  BY <1>1, SuspendedAway
<1>3. /\ ready' \in Seq(Coroutines)
      /\ \A m \in Names : Once(ready', Co(m)) /\ (In(ready', Co(m)) <=> In(ready, Co(m)) \/ m \in W)
  BY <1>2, ReadyGrows
<1> QED  BY <1>1, <1>3, SameLock

LEMMA Acquires ==
  ASSUME LockInv, NEW n \in Names, Runs(Co(n)), Acquire(Co(n)), Resumed({}, n),
         ~Holding(n, pc[n]), Entering(n, pc'[n])
  PROVE  LockInv'
<1>1. /\ ready /= <<>> /\ Head(ready) = Co(n) /\ In(ready, Co(n))
      /\ ~Suspended(n, pc[n]) /\ ~In(lockQueue, Co(n)) /\ holder /= Co(n)
  BY RunsAwake
<1>2. ~Suspended(n, pc'[n]) /\ Holding(n, pc'[n])  BY EnteringAwake
<1>3. \A m \in Names \ {n} : pc'[m] = pc[m] /\ Co(m) /= Co(n)  BY Distinct DEF Resumed
<1>4. CASE holder = Nobody /\ holder' = Co(n) /\ UNCHANGED <<ready, lockQueue>>
  <2>1. \A m \in Names : ~In(lockQueue, Co(m))  BY <1>4 DEF LockInv, In
  <2>2. \A m \in Names : Co(m) /= Nobody  BY Distinct
  <2>3. ASSUME NEW m \in Names
        PROVE  /\ In(ready, Co(m)) <=> ~Suspended(m, pc'[m])
               /\ Holding(m, pc'[m]) <=> holder' = Co(m)
    BY <1>1, <1>2, <1>3, <1>4, <2>1, <2>2, <2>3 DEF LockInv
  <2> QED  BY <1>4, <2>1, <2>2, <2>3 DEF LockInv
<1>5. CASE /\ holder /= Nobody /\ lockQueue' = Append(lockQueue, Co(n))
           /\ ready' = Tail(ready) /\ UNCHANGED holder
  <2> DEFINE Named == {Co(m) : m \in Names}
  <2>1. lockQueue \in Seq(Named) /\ <<Co(n)>> \in Seq(Named) /\ lockQueue' = lockQueue \o <<Co(n)>>
    <3>1. lockQueue \in Seq(Named) /\ Co(n) \in Named  BY DEF LockInv
    <3> HIDE DEF Named
    <3>2. <<Co(n)>> \in Seq(Named)  BY <3>1
    <3> QED  BY <1>5, <3>1, <3>2, AppendIsConcat
  <2>2. \A m \in Names : Once(<<Co(n)>>, Co(m)) /\ (In(<<Co(n)>>, Co(m)) <=> m = n)
    BY Distinct DEF In, Once
  <2>3. lockQueue' \in Seq(Named)  BY <2>1, Joined
  <2>4. ASSUME NEW m \in Names
        PROVE  Once(lockQueue', Co(m)) /\ (In(lockQueue', Co(m)) <=> In(lockQueue, Co(m)) \/ m = n)
    <3>1. Once(lockQueue, Co(m)) /\ (m = n => ~In(lockQueue, Co(m)))  BY <1>1 DEF LockInv
    <3> QED  BY <2>1, <2>2, <3>1, Joined
  <2>5. ready' \in Seq(Coroutines)  BY <1>1, <1>5, HeadLeaves DEF LockInv
  <2>6. ASSUME NEW m \in Names
        PROVE  Once(ready', Co(m)) /\ (In(ready', Co(m)) <=> In(ready, Co(m)) /\ m /= n)
    <3>1. Once(ready, Co(m)) /\ ready \in Seq(Coroutines)  BY DEF LockInv
    <3>2. Once(ready', Co(m)) /\ (In(ready', Co(m)) <=> In(ready, Co(m)) /\ Co(m) /= Head(ready))
      BY <1>1, <1>5, <3>1, HeadLeaves
    <3> QED  BY <1>1, <1>3, <3>2
  <2>7. ASSUME NEW m \in Names
        PROVE  /\ In(ready', Co(m)) <=> ~Suspended(m, pc'[m]) /\ ~In(lockQueue', Co(m))
               /\ In(lockQueue', Co(m)) => Entering(m, pc'[m]) /\ holder' /= Co(m)
               /\ Holding(m, pc'[m]) <=> holder' = Co(m) \/ In(lockQueue', Co(m))
    <3>1. CASE m = n  BY <1>1, <1>2, <1>5, <2>4, <2>6, <3>1
    <3>2. CASE m /= n  BY <1>3, <1>5, <2>4, <2>6, <3>2 DEF LockInv
    <3> QED  BY <3>1, <3>2
  <2>8. holder' \in Named \union {Nobody} /\ holder' /= Nobody  BY <1>5 DEF LockInv
  <2> QED  BY <2>3, <2>4, <2>5, <2>6, <2>7, <2>8 DEF LockInv
<1> QED  BY <1>4, <1>5 DEF Acquire

\* Whoever gets the lock next.
NextNames == {m \in Names : lockQueue /= <<>> /\ Head(lockQueue) = Co(m)}

LEMMA WakesNext == LockInv => Wakes(NextOwner, NextNames)
<1> SUFFICES ASSUME LockInv PROVE Wakes(NextOwner, NextNames)  OBVIOUS
<1>1. CASE lockQueue = <<>>
  <2>1. NextOwner = <<>> /\ NextNames = {}  BY <1>1 DEF NextOwner, NextNames
  <2> QED  BY <2>1, WakesNone
<1>2. CASE lockQueue /= <<>>
  <2>1. Head(lockQueue) \in {Co(m) : m \in Names}  BY <1>2, HeadLeaves DEF LockInv
  <2>2. PICK m \in Names : Head(lockQueue) = Co(m)  BY <2>1
  <2>3. NextOwner = <<Co(m)>> /\ NextNames = {m}  BY <1>2, <2>2, Distinct DEF NextOwner, NextNames
  <2> QED  BY <2>3, WakesOne
<1> QED  BY <1>1, <1>2

LEMMA Releases ==
  ASSUME LockInv, NEW n \in Names, Runs(Co(n)), Release, Holding(n, pc[n]), ~Holding(n, pc'[n]),
         NEW W, n \notin W, Resumed(W, n), NEW w, Wakes(w, W \union NextNames),
         \/ GoOn(w) /\ ~Suspended(n, pc'[n])
         \/ Suspend(w) /\ Suspended(n, pc'[n])
  PROVE  LockInv'
<1>1. /\ ready /= <<>> /\ Head(ready) = Co(n) /\ In(ready, Co(n))
      /\ ~Suspended(n, pc[n]) /\ ~In(lockQueue, Co(n)) /\ holder = Co(n)
  BY RunsAwake
<1>2. \A m \in NextNames : m \in Names /\ In(lockQueue, Co(m))
  BY HeadLeaves DEF NextNames, LockInv
<1>3. \A m \in W \union NextNames : m \in Names => ~In(ready, Co(m)) /\ m /= n
  BY <1>1, <1>2, SuspendedAway DEF LockInv
<1>4. /\ ready' \in Seq(Coroutines)
      /\ \A m \in Names : Once(ready', Co(m))
      /\ \A m \in Names \ {n} : In(ready', Co(m)) <=> In(ready, Co(m)) \/ m \in W \/ m \in NextNames
      /\ In(ready', Co(n)) <=> ~Suspended(n, pc'[n])
  <2>1. CASE GoOn(w) /\ ~Suspended(n, pc'[n])
    BY <1>1, <1>3, <2>1, ReadyGrows DEF GoOn
  <2>2. CASE Suspend(w) /\ Suspended(n, pc'[n])
    <3>1. /\ ready' \in Seq(Coroutines)
          /\ \A m \in Names : /\ Once(ready', Co(m))
                              /\ In(ready', Co(m)) <=> m \in W \union NextNames
                                                       \/ (In(ready, Co(m)) /\ Head(ready) /= Co(m))
      BY <1>1, <1>3, <2>2, ReadyShifts DEF Suspend
    <3> QED  BY <1>1, <1>3, <2>2, <3>1, Distinct
  <2> QED  BY <2>1, <2>2
<1> DEFINE Named == {Co(m) : m \in Names}
<1>5. /\ lockQueue' \in Seq(Named)
      /\ \A m \in Names : /\ Once(lockQueue', Co(m))
                          /\ In(lockQueue', Co(m)) <=> In(lockQueue, Co(m)) /\ m \notin NextNames
      /\ holder' \in Named \union {Nobody} /\ (holder' = Nobody => lockQueue' = <<>>)
      /\ \A m \in Names : holder' = Co(m) <=> m \in NextNames
  <2>1. CASE lockQueue = <<>>
    <3>1. lockQueue' = <<>> /\ holder' = Nobody /\ NextNames = {}
      BY <2>1 DEF Release, NextNames
    <3> QED  BY <2>1, <3>1, Distinct DEF In, Once
  <2>2. CASE lockQueue /= <<>>
    <3>1. lockQueue' = Tail(lockQueue) /\ holder' = Head(lockQueue)  BY <2>2 DEF Release
    <3>2. Tail(lockQueue) \in Seq(Named) /\ Head(lockQueue) \in Named  BY <2>2, HeadLeaves DEF LockInv
    <3>3. ASSUME NEW m \in Names
          PROVE  /\ Once(Tail(lockQueue), Co(m))
                 /\ In(Tail(lockQueue), Co(m)) <=> In(lockQueue, Co(m)) /\ Co(m) /= Head(lockQueue)
      <4>1. lockQueue \in Seq(Named) /\ Once(lockQueue, Co(m))  BY DEF LockInv
      <4> HIDE DEF Named
      <4> QED  BY <2>2, <4>1, HeadLeaves
    <3>4. \A m \in Names : Head(lockQueue) = Co(m) <=> m \in NextNames  BY <2>2 DEF NextNames
    <3>5. holder' /= Nobody  BY <3>1, <3>2, Distinct
    <3> QED  BY <3>1, <3>2, <3>3, <3>4, <3>5
  <2> QED  BY <2>1, <2>2
<1>6. ASSUME NEW m \in Names
      PROVE  /\ In(ready', Co(m)) <=> ~Suspended(m, pc'[m]) /\ ~In(lockQueue', Co(m))
             /\ In(lockQueue', Co(m)) => Entering(m, pc'[m]) /\ holder' /= Co(m)
             /\ Holding(m, pc'[m]) <=> holder' = Co(m) \/ In(lockQueue', Co(m))
  <2>1. /\ In(ready, Co(m)) <=> ~Suspended(m, pc[m]) /\ ~In(lockQueue, Co(m))
        /\ In(lockQueue, Co(m)) => Entering(m, pc[m]) /\ holder /= Co(m)
        /\ Holding(m, pc[m]) <=> holder = Co(m) \/ In(lockQueue, Co(m))
    BY DEF LockInv
  <2>2. CASE m = n
    <3>1. n \notin NextNames /\ ~In(lockQueue', Co(n))  BY <1>1, <1>2, <1>5
    <3> QED  BY <1>4, <1>5, <2>2, <3>1
  <2>3. CASE m /= n /\ m \in W
    <3>1. Suspended(m, pc[m]) /\ ~Suspended(m, pc'[m]) /\ (Holding(m, pc'[m]) <=> Holding(m, pc[m]))
      BY <2>3 DEF Resumed
    <3>2. ~In(lockQueue, Co(m)) /\ m \notin NextNames  BY <1>2, <2>1, <3>1, EnteringAwake
    <3>3. holder /= Co(m)  BY <1>1, <2>3, Distinct
    <3> QED  BY <1>4, <1>5, <2>1, <2>3, <3>1, <3>2, <3>3
  <2>4. CASE m /= n /\ m \notin W
    <3>1. pc'[m] = pc[m]  BY <2>4 DEF Resumed
    <3>2. holder /= Co(m)  BY <1>1, <2>4, Distinct
    <3>3. m \in NextNames => In(lockQueue, Co(m)) /\ ~Suspended(m, pc[m])
      BY <1>2, <2>1, EnteringAwake
    <3> QED  BY <1>4, <1>5, <2>1, <2>4, <3>1, <3>2, <3>3
  <2> QED  BY <2>2, <2>3, <2>4
<1> QED  BY <1>4, <1>5, <1>6 DEF LockInv

\* Whom the end of a worker, a notification and the end of a task wake.
WaitingMain == {m \in Names : m = "main" /\ pc["main"] \in {"waitFirst", "waitProc"}}
WaitingProc == {m \in Names : m = "proc" /\ pc["proc"] \in {"idleWait", "submitWait"}}
WaitingTask == {m \in Names : \/ m = "proc"  /\ pc["proc"] = "waiting"
                              \/ m = "pause" /\ EndsGather}

LEMMA Awakened ==
  /\ Wakes(WokenMain, WaitingMain)
  /\ Wakes(WokenByNotify, WaitingProc)
  /\ Wakes(WokenByTaskEnd, WaitingTask)
<1> PICK n, p, u : n = "main" /\ p = "proc" /\ u = "pause"  OBVIOUS
<1>0. n \in Names /\ p \in Names /\ u \in Names /\ p /= u  BY DEF Names
<1>1. Wakes(<<>>, {}) /\ Wakes(<<Co(n)>>, {n}) /\ Wakes(<<Co(p)>>, {p}) /\ Wakes(<<Co(u)>>, {u})
  BY <1>0, WakesNone, WakesOne
<1>2. Wakes(WokenMain, WaitingMain)
  <2>1. CASE pc["main"] \in {"waitFirst", "waitProc"}
    <3>1. WokenMain = <<Co(n)>> /\ WaitingMain = {n}  BY <1>0, <2>1 DEF WokenMain, WaitingMain
    <3> QED  BY <1>1, <3>1
  <2>2. CASE pc["main"] \notin {"waitFirst", "waitProc"}
    <3>1. WokenMain = <<>> /\ WaitingMain = {}  BY <2>2 DEF WokenMain, WaitingMain
    <3> QED  BY <1>1, <3>1
  <2> QED  BY <2>1, <2>2
<1>3. Wakes(WokenByNotify, WaitingProc)
  <2>1. CASE pc["proc"] \in {"idleWait", "submitWait"}
    <3>1. WokenByNotify = <<Co(p)>> /\ WaitingProc = {p}  BY <1>0, <2>1 DEF WokenByNotify, WaitingProc
    <3> QED  BY <1>1, <3>1
  <2>2. CASE pc["proc"] \notin {"idleWait", "submitWait"}
    <3>1. WokenByNotify = <<>> /\ WaitingProc = {}  BY <2>2 DEF WokenByNotify, WaitingProc
    <3> QED  BY <1>1, <3>1
  <2> QED  BY <2>1, <2>2
<1>4. Wakes(WokenByTaskEnd, WaitingTask)
  <2> DEFINE v == IF pc["proc"] = "waiting" THEN <<Co(p)>> ELSE <<>>
             V == IF pc["proc"] = "waiting" THEN {p} ELSE {}
             w == IF EndsGather THEN <<Co(u)>> ELSE <<>>
             W == IF EndsGather THEN {u} ELSE {}
  <2>1. Wakes(v, V) /\ Wakes(w, W)  BY <1>1
  <2>2. V \intersect W = {} /\ V \union W = WaitingTask  BY <1>0 DEF WaitingTask
  <2>3. WokenByTaskEnd = v \o w  BY DEF WokenByTaskEnd
  <2> HIDE DEF v, V, w, W
  <2> QED  BY <2>1, <2>2, <2>3, WakesBoth
<1> QED  BY <1>2, <1>3, <1>4

LEMMA AwakenedNext ==
  ASSUME LockInv, NEW W, \A m \in Names : m \in W => Suspended(m, pc[m]), NEW w, Wakes(w, W)
  PROVE  Wakes(w \o NextOwner, W \union NextNames) /\ Wakes(NextOwner \o w, W \union NextNames)
<1>1. \A m \in NextNames : m \in Names /\ In(lockQueue, Co(m))  BY HeadLeaves DEF NextNames, LockInv
<1>2. W \intersect NextNames = {}  BY <1>1, EnteringAwake DEF LockInv
<1>3. NextNames \intersect W = {} /\ NextNames \union W = W \union NextNames  BY <1>2
<1> QED  BY <1>2, <1>3, WakesNext, WakesBoth

\* An answer or a call makes a coroutine go on.
LEMMA WakeArrives ==
  ASSUME LockInv, LockUnchanged, NEW n \in Names, Wake(Co(n)), Resumed({n}, "nobody")
  PROVE  LockInv'
<1>1. Co(n) \in Coroutines /\ ready \in Seq(Coroutines) /\ ready' = Append(ready, Co(n))
  BY DEF Coroutines, Wake, LockInv
<1>2. ready' = ready \o <<Co(n)>>  BY <1>1, AppendIsConcat
<1> QED  BY <1>2, WakesOne, Arrives

\* A release that wakes nobody but the next owner.
LEMMA HandsOver ==
  ASSUME LockInv, NEW n \in Names, Runs(Co(n)), Release, Holding(n, pc[n]), ~Holding(n, pc'[n]),
         Resumed({}, n),
         \/ GoOn(NextOwner) /\ ~Suspended(n, pc'[n])
         \/ Suspend(NextOwner) /\ Suspended(n, pc'[n])
  PROVE  LockInv'
<1>1. Wakes(NextOwner, {} \union NextNames)  BY WakesNext
<1> QED  BY <1>1, Releases

\* A coroutine that goes on or suspends and wakes nobody.
LEMMA Alone ==
  ASSUME LockInv, NEW n \in Names, Runs(Co(n)), LockUnchanged, Resumed({}, n),
         Holding(n, pc'[n]) <=> Holding(n, pc[n]),
         \/ GoOn(<<>>) /\ ~Suspended(n, pc'[n])
         \/ Suspend(<<>>) /\ Suspended(n, pc'[n])
  PROVE  LockInv'
<1>1. n \notin {}  OBVIOUS
<1> QED  BY <1>1, WakesNone, GoesOn, Sleeps

LEMMA FeedLock ==
  ASSUME SyncInv, LockInv, FeedPut \/ FeedBlocks
  PROVE  LockInv'
<1> USE DEF SyncInv, SyncType, Goto, Names, Suspended, Holding, Entering, Resumed, Calls
<1> PICK n, f, p : n = "main" /\ f = "feed" /\ p = "proc"  OBVIOUS
<1>0. n \in Names /\ f \in Names /\ p \in Names  OBVIOUS
<1>1. CASE FeedPut
  <2> DEFINE v == IF pc["proc"] = "getting" THEN <<Co(p)>> ELSE <<>>
             V == IF pc["proc"] = "getting" THEN {p} ELSE {}
             w == IF pc["main"] = "waitFirst" THEN <<Co(n)>> ELSE <<>>
             W == IF pc["main"] = "waitFirst" THEN {n} ELSE {}
  <2>1. Wakes(v, V) /\ Wakes(w, W)  BY <1>0, WakesNone, WakesOne
  <2>2. V \intersect W = {}  OBVIOUS
  <2>3. Runs(Co(f)) /\ LockUnchanged  BY <1>1 DEF FeedPut
  <2>4. \/ /\ GoOn(v) /\ Resumed(V, f) /\ f \notin V /\ ~Suspended(f, pc'[f])
           /\ Holding(f, pc'[f]) <=> Holding(f, pc[f])
        \/ /\ Suspend(v \o w) /\ Resumed(V \union W, f) /\ f \notin V \union W /\ Suspended(f, pc'[f])
           /\ Holding(f, pc'[f]) <=> Holding(f, pc[f])
    <3>1. /\ pc'[p] = IF pc[p] = "getting" THEN "takes" ELSE pc[p]
          /\ \A m \in Names \ {n, f, p} : pc'[m] = pc[m]
      BY <1>1 DEF FeedPut
    <3>2. \/ /\ GoOn(v) /\ pc'[f] \in {"put", "putDone"} /\ pc'[n] = pc[n]
          \/ /\ Suspend(v \o w) /\ pc'[f] = "done"
             /\ pc'[n] = IF pc[n] = "waitFirst" THEN "woken" ELSE pc[n]
      BY <1>1 DEF FeedPut
    <3>3. pc[f] \in {"put", "putDone"} /\ ~Holding(f, pc[f]) /\ ~Holding(f, pc'[f]) /\ f \notin V \union W
      BY <1>1, <3>2 DEF FeedPut
    <3>4. CASE GoOn(v) /\ pc'[f] \in {"put", "putDone"} /\ pc'[n] = pc[n]
      <4>1. Resumed(V, f)  BY <3>1, <3>4
      <4>2. ~Suspended(f, pc'[f])  BY <3>4
      <4> QED  BY <3>3, <3>4, <4>1, <4>2
    <3>5. CASE /\ Suspend(v \o w) /\ pc'[f] = "done"
               /\ pc'[n] = IF pc[n] = "waitFirst" THEN "woken" ELSE pc[n]
      <4>1. Resumed(V \union W, f)  BY <3>1, <3>5
      <4>2. Suspended(f, pc'[f])  BY <3>5
      <4> QED  BY <3>3, <3>5, <4>1, <4>2
    <3> QED  BY <3>2, <3>4, <3>5
  <2> HIDE DEF v, V, w, W
  <2>5. Wakes(v \o w, V \union W)  BY <2>1, <2>2, WakesBoth
  <2> QED  BY <1>0, <2>1, <2>3, <2>4, <2>5, GoesOn, Sleeps
<1>2. CASE FeedBlocks
  <2>1. Runs(Co(f)) /\ LockUnchanged /\ Suspend(<<>>)  BY <1>2 DEF FeedBlocks
  <2>2. Resumed({}, f) /\ Suspended(f, pc'[f]) /\ (Holding(f, pc'[f]) <=> Holding(f, pc[f]))
    BY <1>2 DEF FeedBlocks
  <2> QED  BY <1>0, <2>1, <2>2, WakesNone, Sleeps
<1> QED  BY <1>1, <1>2

LEMMA MonitorLock ==
  ASSUME SyncInv, LockInv, Monitor \/ MonitorTimer
  PROVE  LockInv'
<1> USE DEF SyncInv, SyncType, Goto, Names, Suspended, Holding, Entering, Resumed, Calls
<1> PICK n : n = "monitor"  OBVIOUS
<1>0. n \in Names  OBVIOUS
<1>1. CASE MonitorAcquires
  <2>1. Runs(Co(n)) /\ Acquire(Co(n)) /\ Resumed({}, n) /\ ~Holding(n, pc[n]) /\ Entering(n, pc'[n])
    BY <1>1 DEF MonitorAcquires
  <2> QED  BY <1>0, <2>1, Acquires
<1>2. CASE MonitorChecks
  <2>1. Runs(Co(n)) /\ Release /\ Suspend(NextOwner)  BY <1>2 DEF MonitorChecks
  <2>2. Resumed({}, n) /\ Holding(n, pc[n]) /\ ~Holding(n, pc'[n]) /\ Suspended(n, pc'[n])
    BY <1>2 DEF MonitorChecks
  <2> QED  BY <1>0, <2>1, <2>2, HandsOver
<1>3. CASE MonitorDecides
  <2>1. CASE Acquire(Co(n)) /\ pc' = [pc EXCEPT !["monitor"] = "unpause"] /\ Runs(Co(n)) /\ pc["monitor"] = "awake"
    <3>1. Resumed({}, n) /\ ~Holding(n, pc[n]) /\ Entering(n, pc'[n])  BY <2>1
    <3> QED  BY <1>0, <2>1, <3>1, Acquires
  <2>2. CASE /\ GoOn(<<>>) /\ LockUnchanged /\ pc' = [pc EXCEPT !["monitor"] = "check"]
             /\ Runs(Co(n)) /\ pc["monitor"] = "awake"
    <3>1. Resumed({}, n) /\ ~Suspended(n, pc'[n]) /\ (Holding(n, pc'[n]) <=> Holding(n, pc[n]))  BY <2>2
    <3> QED  BY <1>0, <2>2, <3>1, Alone
  <2> QED  BY <1>3, <2>1, <2>2 DEF MonitorDecides
<1>4. CASE MonitorUnpauses
  <2>1. Runs(Co(n)) /\ Release /\ GoOn(WokenByNotify \o NextOwner)  BY <1>4 DEF MonitorUnpauses
  <2>2. /\ Resumed(WaitingProc, n) /\ n \notin WaitingProc
        /\ Holding(n, pc[n]) /\ ~Holding(n, pc'[n]) /\ ~Suspended(n, pc'[n])
    BY <1>4 DEF MonitorUnpauses, Notified, WaitingProc
  <2>3. \A m \in Names : m \in WaitingProc => Suspended(m, pc[m])  BY DEF WaitingProc
  <2>4. Wakes(WokenByNotify \o NextOwner, WaitingProc \union NextNames)
    BY <2>3, Awakened, AwakenedNext
  <2> QED  BY <1>0, <2>1, <2>2, <2>4, Releases
<1>5. CASE MonitorTimer
  <2>1. LockUnchanged /\ Wake(Co(n)) /\ Resumed({n}, "nobody")  BY <1>5 DEF MonitorTimer
  <2> QED  BY <1>0, <2>1, WakeArrives
<1> QED  BY <1>1, <1>2, <1>3, <1>4, <1>5 DEF Monitor
LEMMA MainLock ==
  ASSUME SyncInv, LockInv,
         MainStart \/ MainWoken \/ MainAcquires \/ MainStops \/ FinishSignalArrives
  PROVE  LockInv'
<1> USE DEF SyncInv, SyncType, Begun, Goto, Names, Suspended, Holding, Entering, Resumed, Calls
<1> PICK n, f, p : n = "main" /\ f = "feed" /\ p = "proc"  OBVIOUS
<1>0. n \in Names /\ f \in Names /\ p \in Names  OBVIOUS
<1>1. CASE MainStart
  <2>2. Wakes(<<Co(f), Co(p)>>, {f, p})  BY <1>0, WakesTwo
  <2>3. Runs(Co(n)) /\ LockUnchanged /\ Suspend(<<Co(f), Co(p)>>)  BY <1>1 DEF MainStart
  <2>4. Resumed({f, p}, n) /\ Suspended(n, pc'[n]) /\ n \notin {f, p} /\ (Holding(n, pc'[n]) <=> Holding(n, pc[n]))
    BY <1>1 DEF MainStart
  <2> QED  BY <1>0, <2>2, <2>3, <2>4, Sleeps
<1>2. CASE MainWoken
  <2>1. Runs(Co(n)) /\ LockUnchanged /\ Suspend(<<>>)  BY <1>2 DEF MainWoken
  <2>2. Resumed({}, n) /\ Suspended(n, pc'[n]) /\ (Holding(n, pc'[n]) <=> Holding(n, pc[n]))
    BY <1>2 DEF MainWoken, AfterWorkers
  <2> QED  BY <1>0, <2>1, <2>2, WakesNone, Sleeps
<1>3. CASE MainAcquires
  <2>1. Runs(Co(n)) /\ Acquire(Co(n))  BY <1>3 DEF MainAcquires
  <2>2. Resumed({}, n) /\ ~Holding(n, pc[n]) /\ Entering(n, pc'[n])  BY <1>3 DEF MainAcquires
  <2> QED  BY <1>0, <2>1, <2>2, Acquires
<1>4. CASE MainStops
  <2>1. Runs(Co(n)) /\ Release /\ Suspend(NextOwner)  BY <1>4 DEF MainStops
  <2>2. Resumed({}, n) /\ Holding(n, pc[n]) /\ ~Holding(n, pc'[n]) /\ Suspended(n, pc'[n])
    BY <1>4 DEF MainStops
  <2> QED  BY <1>0, <2>1, <2>2, HandsOver
<1>5. CASE FinishSignalArrives
  <2>1. LockUnchanged /\ Wake(Co(n)) /\ Resumed({n}, "nobody")  BY <1>5 DEF FinishSignalArrives
  <2> QED  BY <1>0, <2>1, WakeArrives
<1> QED  BY <1>1, <1>2, <1>3, <1>4, <1>5

LEMMA ProcessorLock ==
  ASSUME SyncInv, LockInv, pc["proc"] = "submit" => hand \in Samples, Processor
  PROVE  LockInv'
<1> USE DEF SyncInv, SyncType, Goto, Names, Suspended, Holding, Entering, Resumed, Calls
<1> PICK n, f : n = "proc" /\ f = "feed"  OBVIOUS
<1>0. n \in Names /\ f \in Names /\ n /= f  OBVIOUS
<1>a. ASSUME Runs(Co(n)), Acquire(Co(n)), Resumed({}, n), ~Holding(n, pc[n]), Entering(n, pc'[n])
      PROVE  LockInv'
  BY <1>0, <1>a, Acquires
<1>b. ASSUME Runs(Co(n)), LockUnchanged, Resumed({}, n), Holding(n, pc'[n]) <=> Holding(n, pc[n]),
             \/ GoOn(<<>>) /\ ~Suspended(n, pc'[n])
             \/ Suspend(<<>>) /\ Suspended(n, pc'[n])
      PROVE  LockInv'
  <2> HIDE DEF Suspended, Holding, Entering, Resumed, Names
  <2> QED  BY <1>0, <1>b, Alone
<1>c. ASSUME Runs(Co(n)), Release, Resumed({}, n), Holding(n, pc[n]), ~Holding(n, pc'[n]),
             \/ GoOn(NextOwner) /\ ~Suspended(n, pc'[n])
             \/ Suspend(NextOwner) /\ Suspended(n, pc'[n])
      PROVE  LockInv'
  BY <1>0, <1>c, HandsOver
\* The processor ends, with the lock or without it.
<1>d. ASSUME Runs(Co(n)), EndWorker("proc", "done") \/ EndWorker("proc", "crashed")
      PROVE  /\ Resumed(WaitingMain, n) /\ n \notin WaitingMain
             /\ ~Holding(n, pc'[n]) /\ Suspended(n, pc'[n])
             /\ Wakes(NextOwner \o WokenMain, WaitingMain \union NextNames)
  <2>1. \A m \in Names : m \in WaitingMain => Suspended(m, pc[m])  BY DEF WaitingMain
  <2>2. Wakes(NextOwner \o WokenMain, WaitingMain \union NextNames)
    BY <2>1, Awakened, AwakenedNext
  <2> QED  BY <1>d, <2>2 DEF EndWorker, WaitingMain
<1>1. CASE ProcPauses  BY <1>1, <1>a DEF ProcPauses
<1>2. CASE ProcSetsPaused  BY <1>2, <1>c DEF ProcSetsPaused
<1>3. CASE ProcTakesCancelled  BY <1>3, <1>b DEF ProcTakesCancelled
<1>4. CASE ProcTakes
  <2> DEFINE w == IF pc["feed"] \in {"full", "fullDone"} THEN <<Co(f)>> ELSE <<>>
             W == IF pc["feed"] \in {"full", "fullDone"} THEN {f} ELSE {}
  <2>1. Wakes(w, W)  BY <1>0, WakesNone, WakesOne
  <2>2. Runs(Co(n)) /\ LockUnchanged /\ GoOn(w)  BY <1>4 DEF ProcTakes
  <2>3. /\ Resumed(W, n) /\ n \notin W /\ ~Suspended(n, pc'[n])
        /\ Holding(n, pc'[n]) <=> Holding(n, pc[n])
    <3>1. /\ pc["proc"] \in {"top", "takes"}
          /\ pc' = [pc EXCEPT !["proc"] = "loop", !["feed"] = FeedUnblocked(@)]
      BY <1>4 DEF ProcTakes
    <3>2. pc'[n] = "loop" /\ ~Suspended(n, pc'[n]) /\ (Holding(n, pc'[n]) <=> Holding(n, pc[n]))
      BY <3>1
    <3>3. pc'[f] = FeedUnblocked(pc[f]) /\ \A m \in Names \ {n, f} : pc'[m] = pc[m]
      BY <3>1
    <3>4. Resumed(W, n)  BY <3>3 DEF FeedUnblocked
    <3> QED  BY <1>0, <3>2, <3>4
  <2> HIDE DEF w, W
  <2> QED  BY <1>0, <2>1, <2>2, <2>3, GoesOn
<1>5. CASE ProcAwaitsSample  BY <1>5, <1>b DEF ProcAwaitsSample
<1>6. CASE ProcLoopEnds
  <2>1. CASE Acquire(Co(n)) /\ Goto("proc", IF waitFor = "drain" THEN "idle" ELSE "submit")
    BY <1>6, <2>1, <1>a DEF ProcLoopEnds
  <2>2. CASE EndWorker("proc", "done") /\ Suspend(WokenMain) /\ LockUnchanged
    <3>1. Runs(Co(n)) /\ ~Holding(n, pc[n])  BY <1>6 DEF ProcLoopEnds
    <3> QED  BY <1>0, <1>d, <2>2, <3>1, Awakened, Sleeps
  <2> QED  BY <1>6, <2>1, <2>2 DEF ProcLoopEnds
<1>7. CASE ProcLoopAcquires  BY <1>7, <1>a DEF ProcLoopAcquires
<1>8. CASE ProcWaits
  <2>1. CASE finished > 0 \/ failed /= {}
    <3>1. /\ Runs(Co(n)) /\ LockUnchanged /\ Suspend(<<Co(n)>>) /\ Resumed({n}, n)
          /\ ~Suspended(n, pc'[n]) /\ (Holding(n, pc'[n]) <=> Holding(n, pc[n]))
      BY <1>8, <2>1 DEF ProcWaits
    <3> HIDE DEF Suspended, Holding, Entering, Resumed, Names
    <3> QED  BY <1>0, <3>1, WakesOne, Sleeps
  <2>2. CASE ~(finished > 0 \/ failed /= {})  BY <1>8, <2>2, <1>b DEF ProcWaits
  <2> QED  BY <2>1, <2>2
<1>9. CASE ProcSkipsWait
  <2>1. Runs(Co(n)) /\ Release /\ Holding(n, pc[n])  BY <1>9 DEF ProcSkipsWait
  <2>2. CASE Goto("proc", "loop") /\ GoOn(NextOwner)  BY <1>c, <2>1, <2>2
  <2>3. CASE EndWorker("proc", "crashed") /\ Suspend(NextOwner \o WokenMain)
    BY <1>0, <1>d, <2>1, <2>3, Releases
  <2> QED  BY <1>9, <2>2, <2>3 DEF ProcSkipsWait
<1>10. CASE ProcReaps
  <2>1. Runs(Co(n)) /\ Release /\ Holding(n, pc[n])  BY <1>10 DEF ProcReaps
  <2>2. CASE Goto("proc", "loop") /\ GoOn(NextOwner)  BY <1>c, <2>1, <2>2
  <2>3. CASE EndWorker("proc", "crashed") /\ Suspend(NextOwner \o WokenMain)
    BY <1>0, <1>d, <2>1, <2>3, Releases
  <2> QED  BY <1>10, <2>2, <2>3 DEF ProcReaps
<1>11. CASE ProcIdles  BY <1>11, <1>c DEF ProcIdles
<1>12. CASE ProcHoldsBack  BY <1>12, <1>c DEF ProcHoldsBack
<1>13. CASE ProcSubmits
  <2>1. /\ Runs(Co(n)) /\ Release /\ Resumed({}, n) /\ Holding(n, pc[n]) /\ ~Holding(n, pc'[n])
        /\ GoOn(<<Task(hand)>> \o NextOwner) /\ ~Suspended(n, pc'[n]) /\ hand \in Samples
    BY <1>13 DEF ProcSubmits
  <2>2. Wakes(<<Task(hand)>>, {})  BY <2>1, WakesTask
  <2>3. Wakes(<<Task(hand)>> \o NextOwner, {} \union NextNames)  BY <2>2, AwakenedNext
  <2> QED  BY <1>0, <2>1, <2>3, Releases
<1>14. CASE ProcNotified  BY <1>14, <1>a DEF ProcNotified
<1> QED
  BY <1>1, <1>2, <1>3, <1>4, <1>5, <1>6, <1>7, <1>8, <1>9, <1>10, <1>11, <1>12, <1>13, <1>14
  DEF Processor

LEMMA TaskLock ==
  ASSUME SyncInv, LockInv, NEW s \in Samples,
         TaskStarts(s) \/ TaskCompletes(s) \/ TaskEnds(s) \/ Generation(s)
  PROVE  LockInv'
<1> USE DEF SyncInv, SyncType, Names, Suspended, Holding, Entering, Resumed, Calls
<1>1. CASE TaskStarts(s) \/ TaskCompletes(s)
  <2>1. Runs(Task(s)) /\ LockUnchanged /\ Suspend(<<>>) /\ Resumed({}, "nobody")
    BY <1>1 DEF TaskStarts, TaskCompletes
  <2> QED  BY <2>1, WakesNone, TaskLeaves
<1>2. CASE TaskEnds(s)
  <2>1. Runs(Task(s)) /\ LockUnchanged /\ Suspend(WokenByTaskEnd)  BY <1>2 DEF TaskEnds
  <2>2. Resumed(WaitingTask, "nobody")  BY <1>2 DEF TaskEnds, PcAfterTaskEnd, WaitingTask, EndsGather
  <2> QED  BY <2>1, <2>2, Awakened, TaskLeaves
<1>3. CASE GenerationEnds(s) \/ PutArrives(s)
  <2>1. LockUnchanged /\ ready' = Append(ready, Task(s)) /\ Resumed({}, "nobody")
    BY <1>3 DEF GenerationEnds, PutArrives, Wake
  <2>2. Task(s) \in Coroutines /\ ready \in Seq(Coroutines)  BY DEF Coroutines, LockInv
  <2>3. ready' = ready \o <<Task(s)>>  BY <2>1, <2>2, AppendIsConcat
  <2> QED  BY <2>1, <2>3, WakesTask, Arrives
<1>4. CASE ServerAccepts(s)
  <2>1. UNCHANGED <<ready, holder, lockQueue, pc>>  BY <1>4 DEF ServerAccepts, loopVars
  <2> QED  BY <2>1 DEF LockInv
<1> QED  BY <1>1, <1>2, <1>3, <1>4 DEF Generation

LEMMA CallLock ==
  ASSUME SyncInv, LockInv, NEW c \in Calls, CallArrives(c) \/ CallAcquires(c)
  PROVE  LockInv'
<1> USE DEF SyncInv, SyncType, Goto, Names, Suspended, Holding, Entering, Resumed, Calls
<1>0. c \in Names  OBVIOUS
<1>1. CASE CallArrives(c)
  <2>1. LockUnchanged /\ Wake(Co(c)) /\ pc[c] = "none"  BY <1>1 DEF CallArrives, CallsInOrder
  <2>2. Resumed({c}, "nobody")  BY <1>1, <2>1 DEF CallArrives
  <2> QED  BY <1>0, <2>1, <2>2, WakeArrives
<1>2. CASE CallAcquires(c)
  <2>1. Runs(Co(c)) /\ Acquire(Co(c)) /\ Resumed({}, c) /\ ~Holding(c, pc[c]) /\ Entering(c, pc'[c])
    BY <1>2 DEF CallAcquires
  <2> QED  BY <1>0, <2>1, Acquires
<1> QED  BY <1>1, <1>2

LEMMA SyncLock ==
  ASSUME SyncInv, LockInv,
         \/ PauseLocked \/ ServersCancel \/ PauseGathers \/ PauseGathered \/ ServersReset \/ PauseReturns
         \/ UpdateLocked \/ QueueSizeAnswers \/ UpdateResets \/ ValidationArrives \/ UpdateReturns
         \/ ResumeLocked \/ ServersResume \/ ResumeReturns
  PROVE  LockInv'
<1> USE DEF SyncInv, SyncType, Goto, Names, Suspended, Holding, Entering, Resumed, Calls
<1> PICK n, u, r : n = "pause" /\ u = "update" /\ r = "resume"  OBVIOUS
<1>0. n \in Names /\ u \in Names /\ r \in Names  OBVIOUS
<1>1. CASE PauseLocked  BY <1>0, <1>1, Alone DEF PauseLocked
<1>2. CASE ServersCancel \/ ServersReset
  <2>1. LockUnchanged /\ Wake(Co(n)) /\ Resumed({n}, "nobody")  BY <1>2 DEF ServersCancel, ServersReset
  <2> QED  BY <1>0, <2>1, WakeArrives
<1>3. CASE PauseGathers
  <2>1. CASE Live = {}
    <3>1. /\ Runs(Co(n)) /\ LockUnchanged /\ Suspend(<<Co(n)>>) /\ Resumed({n}, n)
          /\ ~Suspended(n, pc'[n]) /\ (Holding(n, pc'[n]) <=> Holding(n, pc[n]))
      BY <1>3, <2>1 DEF PauseGathers
    <3> HIDE DEF Suspended, Holding, Entering, Resumed, Names
    <3> QED  BY <1>0, <3>1, WakesOne, Sleeps
  <2>2. CASE Live /= {}  BY <1>0, <1>3, <2>2, Alone DEF PauseGathers
  <2> QED  BY <2>1, <2>2
<1>4. CASE PauseGathered  BY <1>0, <1>4, Alone DEF PauseGathered
<1>5. CASE PauseReturns
  <2>1. Runs(Co(n)) /\ Release /\ Suspend(NextOwner) /\ Resumed({}, n)
        /\ Holding(n, pc[n]) /\ ~Holding(n, pc'[n]) /\ Suspended(n, pc'[n])
    BY <1>5 DEF PauseReturns
  <2> QED  BY <1>0, <2>1, HandsOver
<1>6. CASE UpdateLocked \/ UpdateResets  BY <1>0, <1>6, Alone DEF UpdateLocked, UpdateResets
<1>7. CASE QueueSizeAnswers \/ ValidationArrives
  <2>1. LockUnchanged /\ Wake(Co(u)) /\ Resumed({u}, "nobody")
    BY <1>7 DEF QueueSizeAnswers, ValidationArrives
  <2> QED  BY <1>0, <2>1, WakeArrives
<1>8. CASE UpdateReturns
  <2>1. Runs(Co(u)) /\ Release /\ Suspend(NextOwner) /\ Resumed({}, u)
        /\ Holding(u, pc[u]) /\ ~Holding(u, pc'[u]) /\ Suspended(u, pc'[u])
    BY <1>8 DEF UpdateReturns
  <2> QED  BY <1>0, <2>1, HandsOver
<1>9. CASE ResumeLocked  BY <1>0, <1>9, Alone DEF ResumeLocked
<1>10. CASE ServersResume
  <2>1. LockUnchanged /\ Wake(Co(r)) /\ Resumed({r}, "nobody")  BY <1>10 DEF ServersResume
  <2> QED  BY <1>0, <2>1, WakeArrives
<1>11. CASE ResumeReturns
  <2>1. Runs(Co(r)) /\ Release /\ Suspend(WokenByNotify \o NextOwner)  BY <1>11 DEF ResumeReturns
  <2>2. /\ Resumed(WaitingProc, r) /\ r \notin WaitingProc
        /\ Holding(r, pc[r]) /\ ~Holding(r, pc'[r]) /\ Suspended(r, pc'[r])
    BY <1>11 DEF ResumeReturns, Notified, WaitingProc
  <2>3. \A m \in Names : m \in WaitingProc => Suspended(m, pc[m])  BY DEF WaitingProc
  <2>4. Wakes(WokenByNotify \o NextOwner, WaitingProc \union NextNames)
    BY <2>3, Awakened, AwakenedNext
  <2> QED  BY <1>0, <2>1, <2>2, <2>4, Releases
<1> QED
  BY <1>1, <1>2, <1>3, <1>4, <1>5, <1>6, <1>7, <1>8, <1>9, <1>10, <1>11
-----------------------------------------------------------------------------
(* Where a sample is.                                                      *)

LEMMA Appended ==
  ASSUME NEW S, NEW q \in Seq(S), NEW x \in S, NEW c
  PROVE  /\ Append(q, x) \in Seq(S)
         /\ In(Append(q, x), c) <=> In(q, c) \/ x = c
         /\ Once(q, c) /\ ~(In(q, c) /\ x = c) => Once(Append(q, x), c)
<1>1. Append(q, x) = q \o <<x>> /\ <<x>> \in Seq(S)  BY AppendIsConcat
<1>2. Once(<<x>>, c) /\ (In(<<x>>, c) <=> x = c)  BY DEF Once, In
<1> DEFINE w == <<x>>
<1>3. q \o w \in Seq(S) /\ (In(q \o w, c) <=> In(q, c) \/ In(w, c))
      /\ (Once(q, c) /\ Once(w, c) /\ ~(In(q, c) /\ In(w, c)) => Once(q \o w, c))
  <2>1. w \in Seq(S)  BY <1>1
  <2> HIDE DEF w
  <2> QED  BY <2>1, Joined
<1> QED  BY <1>1, <1>2, <1>3

\* Where tasks stand is all that changes.
Onward == \A s \in Samples :
  \/ task'[s] = task[s]
  \/ task[s] \notin {"none", "put"} /\ task'[s] \notin {"none", "put"}

FlowStays ==
  /\ UNCHANGED <<pendingQueue, globalSteps, cancelQueue, hand, queue, got>>
  /\ FedTo' = FedTo
  /\ InHand' => InHand
  /\ InHand \/ pc["proc"] = "crashed" => InHand' \/ pc'["proc"] = "crashed" \/ hand = NoSample
  /\ task' \in [Samples -> TaskStates] /\ Onward

LEMMA FlowKept ==
  ASSUME FlowInv, FlowStays
  PROVE  FlowInv'
<1>1. UNCHANGED <<pendingQueue, globalSteps, cancelQueue, hand, queue, got>>  BY DEF FlowStays
<1>2. FlowType  BY DEF FlowInv
<1>3. TakenTo' = TakenTo  BY <1>1 DEF FlowStays, TakenTo
<1>4. FlowType'  BY <1>1, <1>2, <1>3 DEF FlowStays, FlowType
<1>5. ASSUME NEW s \in Samples PROVE PlacedOnce(s)'
  <2>1. PlacedOnce(s)  BY DEF FlowInv
  <2>2. Trained' = Trained  BY <1>1 DEF Trained
  <2>3. \/ task'[s] = task[s]
        \/ task[s] \notin {"none", "put"} /\ task'[s] \notin {"none", "put"}
    BY DEF FlowStays, Onward
  <2> QED  BY <1>1, <1>3, <2>1, <2>2, <2>3 DEF PlacedOnce
<1> QED  BY <1>4, <1>5 DEF FlowInv

\* The processor's, the monitor's and the calls' steps that move no sample.
LEMMA FlowAside ==
  ASSUME SyncInv, FlowInv,
         \/ MainStart \/ MainWoken \/ MainAcquires \/ MainStops \/ FeedBlocks
         \/ ProcPauses \/ ProcSetsPaused \/ ProcAwaitsSample \/ ProcLoopEnds \/ ProcLoopAcquires
         \/ ProcWaits \/ ProcSkipsWait \/ ProcReaps \/ ProcIdles \/ ProcHoldsBack \/ ProcNotified
         \/ Monitor \/ MonitorTimer
  PROVE  FlowStays
<1> USE DEF SyncInv, SyncType, Begun, FlowInv, FlowType, FlowStays, Onward, FedTo, InHand, Goto, EndWorker, Names,
            flowVars, modeVars, restVars, mqVars
<1>1. CASE MainStart  BY <1>1 DEF MainStart
<1>2. CASE MainWoken  BY <1>2 DEF MainWoken, AfterWorkers
<1>3. CASE MainAcquires  BY <1>3 DEF MainAcquires
<1>4. CASE MainStops  BY <1>4 DEF MainStops
<1>5. CASE FeedBlocks  BY <1>5 DEF FeedBlocks
<1>6. CASE ProcPauses  BY <1>6 DEF ProcPauses
<1>7. CASE ProcSetsPaused  BY <1>7 DEF ProcSetsPaused
<1>8. CASE ProcAwaitsSample  BY <1>8 DEF ProcAwaitsSample
<1>9. CASE ProcLoopEnds  BY <1>9 DEF ProcLoopEnds
<1>10. CASE ProcLoopAcquires  BY <1>10 DEF ProcLoopAcquires
<1>11. CASE ProcWaits  BY <1>11 DEF ProcWaits
<1>12. CASE ProcSkipsWait  BY <1>12 DEF ProcSkipsWait
<1>13. CASE ProcReaps  BY <1>13 DEF ProcReaps
<1>14. CASE ProcIdles  BY <1>14 DEF ProcIdles
<1>15. CASE ProcHoldsBack  BY <1>15 DEF ProcHoldsBack
<1>16. CASE ProcNotified  BY <1>16 DEF ProcNotified
<1>17. CASE MonitorAcquires  BY <1>17 DEF MonitorAcquires
<1>18. CASE MonitorChecks  BY <1>18 DEF MonitorChecks
<1>19. CASE MonitorDecides  BY <1>19 DEF MonitorDecides
<1>20. CASE MonitorUnpauses  BY <1>20 DEF MonitorUnpauses, Notified
<1>21. CASE MonitorTimer  BY <1>21 DEF MonitorTimer
<1> QED
  BY <1>1, <1>2, <1>3, <1>4, <1>5, <1>6, <1>7, <1>8, <1>9, <1>10, <1>11, <1>12, <1>13, <1>14,
     <1>15, <1>16, <1>17, <1>18, <1>19, <1>20, <1>21 DEF Monitor

LEMMA FlowCalls ==
  ASSUME SyncInv, FlowInv,
         \/ \E c \in Calls : CallArrives(c) \/ CallAcquires(c)
         \/ PauseLocked \/ ServersCancel \/ PauseGathers \/ PauseGathered \/ ServersReset \/ PauseReturns
         \/ UpdateLocked \/ QueueSizeAnswers \/ UpdateResets \/ ValidationArrives \/ UpdateReturns
         \/ ResumeLocked \/ ServersResume \/ ResumeReturns
  PROVE  FlowStays
<1> USE DEF SyncInv, SyncType, FlowInv, FlowType, FlowStays, Onward, FedTo, InHand, Goto, Returns, Names, Calls,
            flowVars, modeVars, restVars, mqVars
<1>1. CASE \E c \in Calls : CallArrives(c)  BY <1>1 DEF CallArrives
<1>2. CASE \E c \in Calls : CallAcquires(c)  BY <1>2 DEF CallAcquires
<1>3. CASE PauseLocked  BY <1>3 DEF PauseLocked
<1>4. CASE ServersCancel  BY <1>4 DEF ServersCancel, TaskStates
<1>5. CASE PauseGathers  BY <1>5 DEF PauseGathers
<1>6. CASE PauseGathered  BY <1>6 DEF PauseGathered
<1>7. CASE ServersReset  BY <1>7 DEF ServersReset
<1>8. CASE PauseReturns  BY <1>8 DEF PauseReturns
<1>9. CASE UpdateLocked  BY <1>9 DEF UpdateLocked
<1>10. CASE QueueSizeAnswers  BY <1>10 DEF QueueSizeAnswers
<1>11. CASE UpdateResets  BY <1>11 DEF UpdateResets
<1>12. CASE ValidationArrives  BY <1>12 DEF ValidationArrives, MQ!PutValidate
<1>13. CASE UpdateReturns  BY <1>13 DEF UpdateReturns
<1>14. CASE ResumeLocked  BY <1>14 DEF ResumeLocked
<1>15. CASE ServersResume  BY <1>15 DEF ServersResume
<1>16. CASE ResumeReturns  BY <1>16 DEF ResumeReturns, Notified
<1> QED
  BY <1>1, <1>2, <1>3, <1>4, <1>5, <1>6, <1>7, <1>8, <1>9, <1>10, <1>11, <1>12, <1>13, <1>14,
     <1>15, <1>16

LEMMA FlowTask ==
  ASSUME SyncInv, FlowInv, NEW s \in Samples,
         TaskStarts(s) \/ TaskCompletes(s) \/ ServerAccepts(s) \/ GenerationEnds(s)
  PROVE  FlowStays
<1> USE DEF FlowInv, FlowType, FlowStays, Onward, FedTo, InHand, TaskStates, flowVars, modeVars, restVars, mqVars
<1>1. CASE TaskStarts(s)  BY <1>1 DEF TaskStarts
<1>2. CASE TaskCompletes(s)  BY <1>2 DEF TaskCompletes
<1>3. CASE ServerAccepts(s)  BY <1>3 DEF ServerAccepts, Accepted
<1>4. CASE GenerationEnds(s)  BY <1>4 DEF GenerationEnds
<1> QED  BY <1>1, <1>2, <1>3, <1>4

LEMMA FlowTrain ==
  ASSUME FlowInv, UNCHANGED rolloutVars, UNCHANGED <<queue, got>>
  PROVE  FlowStays
BY DEF FlowInv, FlowType, FlowStays, Onward, FedTo, InHand, rolloutVars, flowVars, modeVars, restVars

LEMMA FeedFlow ==
  ASSUME SyncInv, FlowInv, FeedPut
  PROVE  FlowInv'
<1> DEFINE item == IF pc["feed"] = "put" THEN globalSteps ELSE End
<1>0. SyncType /\ FlowType  BY DEF SyncInv, FlowInv
<1>1. /\ TotalSteps \in Nat \ {0} /\ End = TotalSteps + 1
      /\ globalSteps \in Nat /\ globalSteps >= 1 /\ globalSteps <= TotalSteps
  BY <1>0, SharedAssumption DEF FlowType, Samples, End
<1>2. pendingQueue \in Seq(Nat) /\ Len(pendingQueue) \in Nat /\ item \in Nat  BY <1>0, <1>1 DEF FlowType
<1>3. FedTo' = FedTo + 1 /\ item = FedTo + 1 /\ FedTo \in Nat /\ globalSteps' \in Samples
  <2>1. CASE pc["feed"] = "put" /\ globalSteps < TotalSteps
    <3>1. globalSteps' = globalSteps + 1 /\ pc'["feed"] = "put"
      BY <1>0, <1>1, <2>1 DEF FeedPut, SyncType, Names, LastStep
    <3>2. FedTo = globalSteps - 1 /\ FedTo' = globalSteps' - 1  BY <2>1, <3>1 DEF FedTo
    <3> QED  BY <1>1, <2>1, <3>1, <3>2 DEF Samples
  <2>2. CASE pc["feed"] = "put" /\ globalSteps = TotalSteps
    <3>1. globalSteps' = globalSteps /\ pc'["feed"] = "putDone"
      BY <1>0, <1>1, <2>2 DEF FeedPut, SyncType, Names, LastStep
    <3>2. FedTo = globalSteps - 1 /\ FedTo' = TotalSteps  BY <2>2, <3>1 DEF FedTo
    <3> QED  BY <1>0, <1>1, <2>2, <3>1, <3>2 DEF FlowType
  <2>3. CASE pc["feed"] = "putDone"
    <3>1. globalSteps' = globalSteps /\ pc'["feed"] = "done"
      BY <1>0, <2>3 DEF FeedPut, SyncType, Names
    <3>2. FedTo = TotalSteps /\ FedTo' = End  BY <2>3, <3>1 DEF FedTo, End
    <3> QED  BY <1>0, <1>1, <2>3, <3>1, <3>2 DEF FlowType
  <2> QED  BY <1>1, <2>1, <2>2, <2>3 DEF FeedPut
<1>4. pendingQueue' = Append(pendingQueue, item)  BY DEF FeedPut
<1>5. /\ pendingQueue' \in Seq(Nat) /\ Len(pendingQueue') = Len(pendingQueue) + 1
      /\ pendingQueue'[Len(pendingQueue) + 1] = item
      /\ \A i \in 1 .. Len(pendingQueue) : pendingQueue'[i] = pendingQueue[i]
  BY <1>2, <1>4, AppendProperties
<1>6. TakenTo' = TakenTo  BY <1>2, <1>3, <1>5 DEF TakenTo
<1>7. \A i \in 1 .. Len(pendingQueue') : pendingQueue'[i] = TakenTo' + i
  <2> SUFFICES ASSUME NEW i \in 1 .. Len(pendingQueue) + 1 PROVE pendingQueue'[i] = TakenTo + i
    BY <1>5, <1>6
  <2>1. CASE i \in 1 .. Len(pendingQueue)  BY <1>0, <1>5, <2>1 DEF FlowType
  <2>2. CASE i = Len(pendingQueue) + 1  BY <1>2, <1>3, <1>5, <2>2 DEF TakenTo
  <2> QED  BY <1>2, <2>1, <2>2
<1>8. UNCHANGED <<cancelQueue, hand, task, queue, got, waitFor>>  BY DEF FeedPut, mqVars
<1>9. (InHand' <=> InHand) /\ (pc'["proc"] = "crashed" <=> pc["proc"] = "crashed")
  BY <1>0, <1>8 DEF FeedPut, InHand, SyncType, Names
<1>10. FlowType'  BY <1>0, <1>2, <1>3, <1>5, <1>7, <1>8, <1>9 DEF FlowType
<1>11. \A s \in Samples : PlacedOnce(s)'  BY <1>6, <1>8 DEF FlowInv, PlacedOnce, Trained
<1> QED  BY <1>10, <1>11 DEF FlowInv

LEMMA TakesCancelledFlow ==
  ASSUME SyncInv, FlowInv, ProcTakesCancelled
  PROVE  FlowInv'
<1>0. SyncType /\ FlowType  BY DEF SyncInv, FlowInv
<1> DEFINE c == Head(cancelQueue)
<1>1. cancelQueue \in Seq(Samples) /\ cancelQueue /= <<>>  BY <1>0 DEF FlowType, ProcTakesCancelled
<1>2. c \in Samples /\ Tail(cancelQueue) \in Seq(Samples) /\ In(cancelQueue, c)  BY <1>1, HeadLeaves
<1>3. \A s \in Samples : Once(cancelQueue, s)  BY DEF FlowInv, PlacedOnce
<1>4. \A s \in Samples : /\ Once(Tail(cancelQueue), s)
                         /\ In(Tail(cancelQueue), s) <=> In(cancelQueue, s) /\ s /= c
  BY <1>1, <1>3, HeadLeaves
<1>5. /\ hand' = c /\ cancelQueue' = Tail(cancelQueue) /\ waitFor' = "slots"
      /\ pc["proc"] = "top" /\ pc' = [pc EXCEPT !["proc"] = "loop"]
      /\ UNCHANGED <<pendingQueue, task, globalSteps, queue, got>>
  BY DEF ProcTakesCancelled, Goto, mqVars
<1>6. hand = NoSample /\ c /= NoSample
  BY <1>0, <1>2, <1>5, SharedAssumption DEF FlowType, InHand, Samples, NoSample
<1>7. FedTo' = FedTo /\ TakenTo' = TakenTo /\ InHand'  BY <1>0, <1>5 DEF FedTo, TakenTo, InHand, SyncType, Names
<1>8. FlowType'  BY <1>0, <1>2, <1>5, <1>6, <1>7 DEF FlowType
<1>9. ASSUME NEW s \in Samples PROVE PlacedOnce(s)'
  <2>1. PlacedOnce(s)  BY DEF FlowInv
  <2> QED  BY <1>2, <1>4, <1>5, <1>6, <1>7, <2>1 DEF PlacedOnce, Trained
<1> QED  BY <1>8, <1>9 DEF FlowInv

LEMMA TakesFlow ==
  ASSUME SyncInv, FlowInv, ProcTakes
  PROVE  FlowInv'
<1>0. SyncType /\ FlowType  BY DEF SyncInv, FlowInv
<1> DEFINE item == Head(pendingQueue)
<1>1. pendingQueue \in Seq(Nat) /\ pendingQueue /= <<>>  BY <1>0 DEF FlowType, ProcTakes
<1>2. /\ Len(pendingQueue) \in Nat /\ Len(pendingQueue) >= 1 /\ item = pendingQueue[1]
      /\ Tail(pendingQueue) \in Seq(Nat) /\ Len(Tail(pendingQueue)) = Len(pendingQueue) - 1
      /\ \A i \in 1 .. Len(pendingQueue) - 1 : Tail(pendingQueue)[i] = pendingQueue[i + 1]
  BY <1>1, HeadTailProperties, LenProperties, EmptySeq
<1>3. /\ hand' = IF item = End THEN NoSample ELSE item
      /\ waitFor' = IF item = End THEN "final" ELSE "slots"
      /\ pendingQueue' = Tail(pendingQueue)
      /\ pc["proc"] \in {"top", "takes"}
      /\ pc' = [pc EXCEPT !["proc"] = "loop", !["feed"] = FeedUnblocked(@)]
      /\ UNCHANGED <<cancelQueue, task, globalSteps, queue, got>>
  BY DEF ProcTakes, mqVars
<1>4. TotalSteps \in Nat \ {0} /\ globalSteps \in Nat /\ globalSteps <= TotalSteps /\ End = TotalSteps + 1
      /\ globalSteps >= 1 /\ NoSample = 0
  BY <1>0, SharedAssumption DEF FlowType, Samples, End, NoSample
<1>5. FedTo' = FedTo /\ FedTo \in Nat /\ FedTo <= End
  <2>1. FedTo' = FedTo  BY <1>0, <1>3 DEF FedTo, SyncType, Names, FeedUnblocked
  <2>2. FedTo \in Nat /\ FedTo <= End  BY <1>4 DEF FedTo
  <2> QED  BY <2>1, <2>2
<1>6. TakenTo' = TakenTo + 1 /\ item = TakenTo + 1 /\ TakenTo \in Nat /\ item <= End
  <2>1. TakenTo' = FedTo - (Len(pendingQueue) - 1)  BY <1>2, <1>3, <1>5 DEF TakenTo
  <2>2. /\ TakenTo = FedTo - Len(pendingQueue) /\ Len(pendingQueue) <= FedTo
        /\ \A i \in 1 .. Len(pendingQueue) : pendingQueue[i] = TakenTo + i
    BY <1>0 DEF TakenTo, FlowType
  <2>3. pendingQueue[1] = TakenTo + 1  BY <1>2, <2>2
  <2>4. TakenTo \in Nat /\ TakenTo + 1 <= FedTo  BY <1>2, <1>5, <2>2
  <2>5. Len(pendingQueue) \in Nat /\ item = pendingQueue[1] /\ TakenTo = FedTo - Len(pendingQueue)
    BY <1>2, <2>2
  <2>6. TakenTo' = TakenTo + 1  BY <1>5, <2>1, <2>5
  <2>7. TakenTo + 1 <= End  BY <1>4, <1>5, <2>4
  <2> QED  BY <2>3, <2>4, <2>5, <2>6, <2>7
<1>7. \A i \in 1 .. Len(pendingQueue') : pendingQueue'[i] = TakenTo' + i
  <2> SUFFICES ASSUME NEW i \in 1 .. Len(pendingQueue) - 1 PROVE Tail(pendingQueue)[i] = TakenTo + 1 + i
    BY <1>2, <1>3, <1>6
  <2>1. i + 1 \in 1 .. Len(pendingQueue)  BY <1>2
  <2>2. pendingQueue[i + 1] = TakenTo + (i + 1)  BY <1>0, <2>1 DEF FlowType
  <2> QED  BY <1>2, <1>6, <2>2
<1>8. hand = NoSample /\ hand' \in Samples \union {NoSample} /\ (hand' = NoSample <=> item = End)
  <2>1. hand \in Samples \union {NoSample} /\ ~InHand /\ pc["proc"] /= "crashed"
    BY <1>0, <1>3 DEF FlowType, InHand, ProcTakes
  <2>2. hand = NoSample  BY <1>0, <2>1 DEF FlowType
  <2>3. item /= End => item \in Samples  BY <1>4, <1>6 DEF Samples
  <2>4. NoSample \notin Samples  BY <1>4 DEF Samples
  <2> QED  BY <1>3, <2>2, <2>3, <2>4
<1>9. InHand' <=> item /= End  BY <1>0, <1>3 DEF InHand, SyncType, Names
<1>10. Len(pendingQueue') <= FedTo'  BY <1>0, <1>2, <1>3, <1>5 DEF FlowType
<1>11. FlowType'  BY <1>0, <1>2, <1>3, <1>7, <1>8, <1>9, <1>10 DEF FlowType
<1>12. ASSUME NEW s \in Samples PROVE PlacedOnce(s)'
  <2>1. PlacedOnce(s) /\ s \in Nat /\ s >= 1  BY DEF FlowInv, Samples
  <2>2. s > TakenTo' => s > TakenTo /\ s /= item  BY <1>6, <2>1
  <2>3. s = hand' => s > TakenTo  BY <1>3, <1>4, <1>6, <2>1
  <2>4. s /= hand  BY <1>4, <1>8, <2>1
  <2>5. s > TakenTo' => s /= hand'  BY <1>3, <1>4, <2>1, <2>2
  <2> QED  BY <1>3, <2>1, <2>2, <2>3, <2>4, <2>5 DEF PlacedOnce, Trained
<1> QED  BY <1>11, <1>12 DEF FlowInv

LEMMA SubmitsFlow ==
  ASSUME SyncInv, FlowInv, ProcSubmits
  PROVE  FlowInv'
<1>0. SyncType /\ FlowType  BY DEF SyncInv, FlowInv
<1>1. /\ task' = [task EXCEPT ![hand] = "created"] /\ hand' = NoSample
      /\ pc["proc"] = "submit" /\ pc' = [pc EXCEPT !["proc"] = "top"]
      /\ UNCHANGED <<pendingQueue, globalSteps, cancelQueue, queue, got>>
  BY DEF ProcSubmits, Goto, flowVars, restVars, mqVars
<1>2. hand \in Samples /\ NoSample \notin Samples
  BY <1>0, <1>1 DEF FlowType, InHand, Samples, NoSample
<1>3. FedTo' = FedTo /\ TakenTo' = TakenTo /\ ~InHand'
  BY <1>0, <1>1 DEF FedTo, TakenTo, InHand, SyncType, Names
<1>4. FlowType'  BY <1>0, <1>1, <1>3 DEF FlowType, TaskStates
<1>5. ASSUME NEW s \in Samples PROVE PlacedOnce(s)'
  <2>1. PlacedOnce(s) /\ task'[s] = IF s = hand THEN "created" ELSE task[s]
    BY <1>0, <1>1 DEF FlowInv, FlowType
  <2> QED  BY <1>1, <1>2, <1>3, <2>1 DEF PlacedOnce, Trained
<1> QED  BY <1>4, <1>5 DEF FlowInv

LEMMA TaskEndsFlow ==
  ASSUME SyncInv, FlowInv, NEW t \in Samples, TaskEnds(t)
  PROVE  FlowInv'
<1>0. SyncType /\ FlowType  BY DEF SyncInv, FlowInv
<1>1. /\ task[t] \in {"put", "cancelled", "raised"} /\ task' = [task EXCEPT ![t] = "none"]
      /\ cancelQueue' = IF task[t] = "cancelled" THEN Append(cancelQueue, t) ELSE cancelQueue
      /\ pc' = PcAfterTaskEnd
      /\ UNCHANGED <<pendingQueue, hand, globalSteps, queue, got, waitFor>>
  BY DEF TaskEnds, restVars, mqVars
<1>2. FedTo' = FedTo /\ TakenTo' = TakenTo /\ (InHand' <=> InHand)
      /\ (pc'["proc"] = "crashed" <=> pc["proc"] = "crashed")
  BY <1>0, <1>1 DEF FedTo, TakenTo, InHand, SyncType, Names, PcAfterTaskEnd
<1>3. ASSUME NEW s \in Samples
      PROVE  /\ In(cancelQueue', s) <=> In(cancelQueue, s) \/ (s = t /\ task[t] = "cancelled")
             /\ Once(cancelQueue', s)
  <2>1. cancelQueue \in Seq(Samples) /\ Once(cancelQueue, s)  BY <1>0 DEF FlowType, FlowInv, PlacedOnce
  <2>2. ~(In(cancelQueue, t) /\ task[t] = "cancelled")  BY DEF FlowInv, PlacedOnce
  <2>3. CASE task[t] = "cancelled"  BY <1>1, <2>1, <2>2, <2>3, Appended
  <2>4. CASE task[t] /= "cancelled"  BY <1>1, <2>1, <2>4
  <2> QED  BY <2>3, <2>4
<1>4. cancelQueue' \in Seq(Samples)  BY <1>0, <1>1, Appended DEF FlowType
<1>5. FlowType'  BY <1>0, <1>1, <1>2, <1>4 DEF FlowType, TaskStates
<1>6. ASSUME NEW s \in Samples PROVE PlacedOnce(s)'
  <2>1. PlacedOnce(s) /\ task'[s] = IF s = t THEN "none" ELSE task[s]
    BY <1>0, <1>1 DEF FlowInv, FlowType
  <2> QED  BY <1>1, <1>2, <1>3, <2>1 DEF PlacedOnce, Trained
<1> QED  BY <1>5, <1>6 DEF FlowInv

\* The message queue takes a sample, or the finish signal, and may drop its oldest.
LEMMA PutQueue ==
  ASSUME FlowInv, NEW x \in 1 .. End, MQ!PutSample(x)
  PROVE  /\ queue' \in Seq(1 .. End) /\ UNCHANGED got
         /\ \A s \in Samples : In(queue', s) => In(queue, s) \/ s = x
         /\ \A s \in Samples : ~(In(queue, s) /\ s = x) => Once(queue', s)
<1> DEFINE kept == IF MQ!Full THEN Tail(queue) ELSE queue
<1>1. queue \in Seq(1 .. End)  BY DEF FlowInv, FlowType
<1>2. queue' = Append(kept, x) /\ UNCHANGED got  BY DEF MQ!PutSample
<1>3. MQ!Full => queue /= <<>>
  <2>1. SamplesPerSync \in Nat \ {0}  BY SharedAssumption DEF SamplesPerSync
  <2>2. MaxRequiredSamples \in Nat \ {0}  BY <2>1, SharedAssumption DEF MaxRequiredSamples
  <2>3. queue = <<>> => Len(queue) = 0  BY EmptySeq
  <2> QED  BY <2>2, <2>3 DEF MQ!Full
<1>4. /\ kept \in Seq(1 .. End)
      /\ \A s \in Samples : Once(kept, s) /\ (In(kept, s) => In(queue, s))
  <2>1. \A s \in Samples : Once(queue, s)  BY DEF FlowInv, PlacedOnce
  <2>2. CASE MQ!Full  BY <1>1, <1>3, <2>1, <2>2, HeadLeaves
  <2>3. CASE ~MQ!Full  BY <1>1, <2>1, <2>3
  <2> QED  BY <2>2, <2>3
<1> HIDE DEF kept
<1>5. ASSUME NEW s \in Samples
      PROVE  /\ In(queue', s) => In(queue, s) \/ s = x
             /\ ~(In(queue, s) /\ s = x) => Once(queue', s)
  <2> DEFINE grown == Append(kept, x)
  <2>1. In(grown, s) <=> In(kept, s) \/ x = s
    <3>1. kept \in Seq(1 .. End)  BY <1>4
    <3> QED  BY <3>1, Appended, SMTT(60) DEF In
  <2>2. Once(kept, s) /\ ~(In(kept, s) /\ x = s) => Once(grown, s)  BY <1>4, Appended
  <2>3. queue' = grown  BY <1>2
  <2> HIDE DEF grown
  <2> QED  BY <1>4, <2>1, <2>2, <2>3
<1>6. Append(kept, x) \in Seq(1 .. End)  BY <1>4, Appended
<1> QED  BY <1>2, <1>5, <1>6

LEMMA PutFlow ==
  ASSUME SyncInv, FlowInv, NEW t \in Samples, PutArrives(t)
  PROVE  FlowInv'
<1>0. SyncType /\ FlowType  BY DEF SyncInv, FlowInv
<1>1. /\ task[t] = "putting" /\ task' = [task EXCEPT ![t] = "put"] /\ MQ!PutSample(t)
      /\ UNCHANGED <<pc, waitFor, pendingQueue, cancelQueue, hand, globalSteps>>
  BY DEF PutArrives, restVars
<1>2. t \in 1 .. End  BY SharedAssumption DEF Samples, End
<1>3. /\ queue' \in Seq(1 .. End) /\ UNCHANGED got
      /\ \A s \in Samples : In(queue', s) => In(queue, s) \/ s = t
      /\ \A s \in Samples : ~(In(queue, s) /\ s = t) => Once(queue', s)
  BY <1>1, <1>2, PutQueue
<1>4. FedTo' = FedTo /\ TakenTo' = TakenTo /\ (InHand' <=> InHand)
  BY <1>1 DEF FedTo, TakenTo, InHand
<1>5. FlowType'  BY <1>0, <1>1, <1>3, <1>4 DEF FlowType, TaskStates
<1>6. ASSUME NEW s \in Samples PROVE PlacedOnce(s)'
  <2>1. PlacedOnce(s) /\ PlacedOnce(t) /\ task'[s] = IF s = t THEN "put" ELSE task[s]
    BY <1>0, <1>1 DEF FlowInv, FlowType
  <2>2. In(queue', s) => In(queue, s) \/ s = t  BY <1>3
  <2>3. Once(queue', s)  BY <1>1, <1>3, <2>1 DEF PlacedOnce
  <2>4. t \notin Trained /\ t /= hand /\ ~In(cancelQueue, t) /\ ~(t > TakenTo)
    BY <1>1, <2>1 DEF PlacedOnce
  <2> QED  BY <1>1, <1>3, <1>4, <2>1, <2>2, <2>3, <2>4 DEF PlacedOnce, Trained
<1> QED  BY <1>5, <1>6 DEF FlowInv

LEMMA SignalFlow ==
  ASSUME SyncInv, FlowInv, FinishSignalArrives
  PROVE  FlowInv'
<1>0. SyncType /\ FlowType  BY DEF SyncInv, FlowInv
<1>1. /\ MQ!PutSample(End) /\ pc' = [pc EXCEPT !["main"] = "sent"]
      /\ UNCHANGED <<task, waitFor, pendingQueue, cancelQueue, hand, globalSteps>>
  BY DEF FinishSignalArrives, Goto, flowVars, restVars
<1>2. End \in 1 .. End /\ End \notin Samples  BY SharedAssumption DEF Samples, End
<1>3. /\ queue' \in Seq(1 .. End) /\ UNCHANGED got
      /\ \A s \in Samples : In(queue', s) => In(queue, s) \/ s = End
      /\ \A s \in Samples : ~(In(queue, s) /\ s = End) => Once(queue', s)
  <2> PICK x \in 1 .. End : x = End  BY <1>2
  <2> QED  BY <1>1, PutQueue
<1>4. FedTo' = FedTo /\ TakenTo' = TakenTo /\ (InHand' <=> InHand)
      /\ (pc'["proc"] = "crashed" <=> pc["proc"] = "crashed")
  BY <1>0, <1>1 DEF FedTo, TakenTo, InHand, SyncType, Names
<1>5. FlowType'  BY <1>0, <1>1, <1>3, <1>4 DEF FlowType
<1>6. ASSUME NEW s \in Samples PROVE PlacedOnce(s)'
  <2>1. PlacedOnce(s) /\ s /= End  BY <1>2 DEF FlowInv
  <2>2. (In(queue', s) => In(queue, s)) /\ Once(queue', s)  BY <1>3, <2>1
  <2> QED  BY <1>1, <1>3, <1>4, <2>1, <2>2 DEF PlacedOnce, Trained
<1> QED  BY <1>5, <1>6 DEF FlowInv

LEMMA CollectFlow ==
  ASSUME FlowInv, UNCHANGED rolloutVars, Collect
  PROVE  FlowInv'
<1>0. FlowType  BY DEF FlowInv
<1> DEFINE x == Head(queue)
<1>1. queue' = Tail(queue) /\ queue /= <<>> /\ got' = [got EXCEPT !["trainer"] = @ \union {x}]
  BY DEF Collect, MQ!GetSample
<1>2. queue \in Seq(1 .. End) /\ In(queue, x) /\ Tail(queue) \in Seq(1 .. End)
  BY <1>0, <1>1, HeadLeaves DEF FlowType
<1>3. \A s \in Samples : Once(queue', s) /\ (In(queue', s) <=> In(queue, s) /\ s /= x)
  <2>1. \A s \in Samples : Once(queue, s)  BY DEF FlowInv, PlacedOnce
  <2> QED  BY <1>1, <1>2, <2>1, HeadLeaves
<1>4. UNCHANGED <<pc, task, waitFor, pendingQueue, cancelQueue, hand, globalSteps>>
  BY DEF rolloutVars, flowVars, restVars
<1>5. FedTo' = FedTo /\ TakenTo' = TakenTo /\ (InHand' <=> InHand)
  BY <1>4 DEF FedTo, TakenTo, InHand
<1>6. FlowType'  BY <1>0, <1>1, <1>2, <1>4, <1>5 DEF FlowType
<1>7. Trained' = Trained \union {x}  BY <1>0, <1>1 DEF FlowType, Trained
<1>8. ASSUME NEW s \in Samples PROVE PlacedOnce(s)'
  <2>1. PlacedOnce(s)  BY DEF FlowInv
  <2> QED  BY <1>2, <1>3, <1>4, <1>5, <1>7, <2>1 DEF PlacedOnce
<1> QED  BY <1>6, <1>8 DEF FlowInv

LEMMA ClearFlow ==
  ASSUME FlowInv, RunnerClears
  PROVE  FlowInv'
<1>0. FlowType  BY DEF FlowInv
<1>1. queue' = <<>> /\ UNCHANGED got  BY DEF RunnerClears, MQ!ClearQueue, mqVars
<1>2. UNCHANGED <<pc, task, waitFor, pendingQueue, cancelQueue, hand, globalSteps>>
  BY DEF RunnerClears, rolloutVars, flowVars, restVars
<1>3. FedTo' = FedTo /\ TakenTo' = TakenTo /\ (InHand' <=> InHand)
  BY <1>2 DEF FedTo, TakenTo, InHand
<1>4. queue' \in Seq(1 .. End)  BY <1>1, EmptySeq
<1>5. FlowType'  BY <1>0, <1>1, <1>2, <1>3, <1>4 DEF FlowType
<1>6. \A s : Once(queue', s) /\ ~In(queue', s)  BY <1>1 DEF Once, In
<1>7. \A s \in Samples : PlacedOnce(s)'  BY <1>1, <1>2, <1>3, <1>6 DEF FlowInv, PlacedOnce, Trained
<1> QED  BY <1>5, <1>7 DEF FlowInv

LEMMA InitFlow == Init => FlowInv
<1> SUFFICES ASSUME Init PROVE FlowInv  OBVIOUS
<1>1. /\ pc["feed"] = "none" /\ pc["proc"] = "none" /\ globalSteps = 1 /\ pendingQueue = <<>>
      /\ cancelQueue = <<>> /\ queue = <<>> /\ hand = NoSample /\ waitFor = "drain"
      /\ task = [s \in Samples |-> "none"] /\ got = [c \in {"trainer"} |-> {}]
  BY DEF Init, RolloutInit, SharedInit, Names
<1>2. Len(<<>>) = 0 /\ <<>> \in Seq(Nat) /\ <<>> \in Seq(Samples) /\ <<>> \in Seq(1 .. End)
  BY EmptySeq
<1>3. FedTo = 0 /\ TakenTo = 0 /\ ~InHand  BY <1>1, <1>2 DEF FedTo, TakenTo, InHand
<1>4. 1 \in Samples  BY SharedAssumption DEF Samples
<1>5. FlowType  BY <1>1, <1>2, <1>3, <1>4 DEF FlowType, TaskStates
<1>6. \A s : Once(<<>>, s) /\ ~In(<<>>, s)  BY DEF Once, In
<1>7. NoSample \notin Samples  BY DEF NoSample, Samples
<1>8. \A s \in Samples : PlacedOnce(s)  BY <1>1, <1>6, <1>7 DEF PlacedOnce, Trained
<1> QED  BY <1>5, <1>8 DEF FlowInv
-----------------------------------------------------------------------------
(* The tasks in the run queue.                                             *)

Named == {Co(n) : n \in Names}

\* The named coroutines come and go, the tasks stay where they are.
TasksQueued ==
  /\ \E w \in Seq(Named) :
       \/ ready' = ready \o w
       \/ ready' = Tail(ready) \o w /\ \E n \in Names : Runs(Co(n))
  /\ \A s \in Samples : task'[s] \in TaskAwake <=> task[s] \in TaskAwake

LEMMA NamedQueue ==
  /\ Named \subseteq Coroutines
  /\ \A w \in Seq(Named) : w \in Seq(Coroutines) /\ \A s \in Samples : ~In(w, Task(s))
<1>1. Named \subseteq Coroutines  BY DEF Named, Coroutines
<1>2. ASSUME NEW w \in Seq(Named) PROVE w \in Seq(Coroutines) /\ \A s \in Samples : ~In(w, Task(s))
  <2>1. Len(w) \in Nat /\ \A i \in 1 .. Len(w) : w[i] \in Named  BY LenProperties, ElementOfSeq
  <2>2. w \in Seq(Coroutines)  BY <1>1
  <2>3. \A i \in 1 .. Len(w) : \A s \in Samples : w[i] /= Task(s)  BY <2>1, Distinct DEF Named
  <2> QED  BY <2>2, <2>3 DEF In
<1> QED  BY <1>1, <1>2

LEMMA TasksKept ==
  ASSUME LockInv, TasksRun, TasksQueued
  PROVE  TasksRun'
<1> SUFFICES ASSUME NEW s \in Samples
             PROVE  Once(ready', Task(s)) /\ (In(ready', Task(s)) <=> In(ready, Task(s)))
  BY DEF TasksRun, TasksQueued
<1>1. ready \in Seq(Coroutines) /\ Once(ready, Task(s))  BY DEF LockInv, TasksRun
<1>2. PICK w \in Seq(Named) : \/ ready' = ready \o w
                              \/ ready' = Tail(ready) \o w /\ \E n \in Names : Runs(Co(n))
  BY DEF TasksQueued
<1>3. w \in Seq(Coroutines) /\ ~In(w, Task(s)) /\ Once(w, Task(s))  BY NamedQueue DEF In, Once
<1>4. CASE ready' = ready \o w  BY <1>1, <1>3, <1>4, Joined
<1>5. CASE ready' = Tail(ready) \o w /\ \E n \in Names : Runs(Co(n))
  <2>1. ready /= <<>> /\ Head(ready) /= Task(s)  BY <1>5, Distinct DEF Runs
  <2>2. /\ Tail(ready) \in Seq(Coroutines) /\ Once(Tail(ready), Task(s))
        /\ In(Tail(ready), Task(s)) <=> In(ready, Task(s))
    BY <1>1, <2>1, HeadLeaves
  <2> QED  BY <1>3, <1>5, <2>2, Joined
<1> QED  BY <1>2, <1>4, <1>5

\* What the actions wake.
LEMMA NamedLists ==
  ASSUME LockInv
  PROVE  /\ <<>> \in Seq(Named) /\ \A n \in Names : <<Co(n)>> \in Seq(Named)
         /\ {NextOwner, WokenMain, WokenByNotify, WokenByTaskEnd} \subseteq Seq(Named)
         /\ \A v, w \in Seq(Named) : v \o w \in Seq(Named)
<1>1. <<>> \in Seq(Named) /\ \A n \in Names : <<Co(n)>> \in Seq(Named)
  <2>1. \A n \in Names : Co(n) \in Named  BY DEF Named
  <2> QED  BY <2>1, EmptySeq
<1>2. \A v, w \in Seq(Named) : v \o w \in Seq(Named)  BY ConcatProperties
<1>3. NextOwner \in Seq(Named)
  <2>1. lockQueue \in Seq(Named)  BY DEF LockInv, Named
  <2>2. lockQueue /= <<>> => <<Head(lockQueue)>> \in Seq(Named)  BY <2>1, HeadLeaves
  <2> QED  BY <1>1, <2>2 DEF NextOwner
<1>4. WokenMain \in Seq(Named) /\ WokenByNotify \in Seq(Named)
  BY <1>1 DEF WokenMain, WokenByNotify, Names
<1>5. WokenByTaskEnd \in Seq(Named)  BY <1>1, <1>2 DEF WokenByTaskEnd, Names
<1> QED  BY <1>1, <1>2, <1>3, <1>4, <1>5

\* A coroutine that runs goes on or suspends, or waits for the lock.
LEMMA TasksStand ==
  ASSUME LockInv, TasksRun, NEW n \in Names, Runs(Co(n)),
         \/ Acquire(Co(n))
         \/ \E w \in Seq(Named) : GoOn(w) \/ Suspend(w),
         \A s \in Samples : task'[s] \in TaskAwake <=> task[s] \in TaskAwake
  PROVE  TasksRun'
<1>1. ready \in Seq(Coroutines) /\ Tail(ready) \in Seq(Coroutines)  BY HeadLeaves DEF LockInv, Runs
<1>2. \E w \in Seq(Named) :
       \/ ready' = ready \o w
       \/ ready' = Tail(ready) \o w /\ \E m \in Names : Runs(Co(m))
  <2>1. CASE Acquire(Co(n))
    <3>1. ready' = ready \o <<>> \/ ready' = Tail(ready) \o <<>>  BY <1>1, <2>1, ConcatEmptySeq DEF Acquire
    <3> QED  BY <3>1, NamedLists
  <2>2. CASE \E w \in Seq(Named) : GoOn(w) \/ Suspend(w)  BY <2>2 DEF GoOn, Suspend
  <2> QED  BY <2>1, <2>2
<1> QED  BY <1>2, TasksKept DEF TasksQueued

\* An answer or a call.
LEMMA TasksHear ==
  ASSUME LockInv, TasksRun, NEW n \in Names, Wake(Co(n)),
         \A s \in Samples : task'[s] \in TaskAwake <=> task[s] \in TaskAwake
  PROVE  TasksRun'
<1>1. ready \in Seq(Coroutines) /\ Co(n) \in Coroutines  BY DEF LockInv, Coroutines
<1>2. ready' = ready \o <<Co(n)>>  BY <1>1, AppendIsConcat DEF Wake
<1> QED  BY <1>2, NamedLists, TasksKept DEF TasksQueued

LEMMA LoopTasks ==
  ASSUME SyncInv, LockInv, TasksRun,
         \/ MainStart \/ MainWoken \/ MainAcquires \/ MainStops \/ FeedPut \/ FeedBlocks
         \/ (Processor /\ ~ProcSubmits) \/ Monitor
         \/ \E c \in Calls : CallAcquires(c)
         \/ PauseLocked \/ PauseGathers \/ PauseGathered \/ PauseReturns
         \/ UpdateLocked \/ UpdateResets \/ UpdateReturns \/ ResumeLocked \/ ResumeReturns
  PROVE  TasksRun'
<1> DEFINE Step(n) == /\ n \in Names /\ Runs(Co(n)) /\ UNCHANGED task
                      /\ Acquire(Co(n)) \/ \E w \in Seq(Named) : GoOn(w) \/ Suspend(w)
<1> SUFFICES \E n : Step(n)  BY TasksStand
<1> USE NamedLists DEF Names, Calls, flowVars
<1>1. CASE MainStart
  <2>1. <<Co("feed"), Co("proc")>> = <<Co("feed")>> \o <<Co("proc")>>  OBVIOUS
  <2>2. Step("main")  BY <1>1, <2>1 DEF MainStart
  <2> QED  BY <2>2
<1>2. CASE MainWoken \/ MainAcquires \/ MainStops
  <2>1. Step("main")  BY <1>2 DEF MainWoken, MainAcquires, MainStops
  <2> QED  BY <2>1
<1>3. CASE FeedPut
  <2> DEFINE v == IF pc["proc"] = "getting" THEN <<Co("proc")>> ELSE <<>>
             w == IF pc["main"] = "waitFirst" THEN <<Co("main")>> ELSE <<>>
  <2>1. v \in Seq(Named) /\ w \in Seq(Named)  OBVIOUS
  <2>2. Runs(Co("feed")) /\ UNCHANGED task /\ (GoOn(v) \/ Suspend(v \o w))  BY <1>3 DEF FeedPut
  <2> HIDE DEF v, w
  <2>3. Step("feed")  BY <2>1, <2>2
  <2> QED  BY <2>3
<1>4. CASE FeedBlocks
  <2>1. Step("feed")  BY <1>4 DEF FeedBlocks
  <2> QED  BY <2>1
<1>5. CASE Processor /\ ~ProcSubmits
  <2>1. CASE ProcPauses \/ ProcSetsPaused \/ ProcTakesCancelled \/ ProcTakes
    <3>1. Step("proc")  BY <2>1 DEF ProcPauses, ProcSetsPaused, ProcTakesCancelled, ProcTakes
    <3> QED  BY <3>1
  <2>2. CASE ProcAwaitsSample \/ ProcLoopEnds \/ ProcLoopAcquires \/ ProcWaits
    <3>1. Step("proc")  BY <2>2 DEF ProcAwaitsSample, ProcLoopEnds, ProcLoopAcquires, ProcWaits
    <3> QED  BY <3>1
  <2>3. CASE ProcSkipsWait \/ ProcReaps
    <3>1. Step("proc")  BY <2>3 DEF ProcSkipsWait, ProcReaps
    <3> QED  BY <3>1
  <2>4. CASE ProcIdles \/ ProcHoldsBack \/ ProcNotified
    <3>1. Step("proc")  BY <2>4 DEF ProcIdles, ProcHoldsBack, ProcNotified
    <3> QED  BY <3>1
  <2> QED  BY <1>5, <2>1, <2>2, <2>3, <2>4 DEF Processor
<1>6. CASE Monitor
  <2>1. Step("monitor")
    BY <1>6 DEF Monitor, MonitorAcquires, MonitorChecks, MonitorDecides, MonitorUnpauses
  <2> QED  BY <2>1
<1>7. CASE \E c \in Calls : CallAcquires(c)  BY <1>7 DEF CallAcquires
<1>8. CASE PauseLocked \/ PauseGathers \/ PauseGathered \/ PauseReturns
  <2>1. Step("pause")  BY <1>8 DEF PauseLocked, PauseGathers, PauseGathered, PauseReturns
  <2> QED  BY <2>1
<1>9. CASE UpdateLocked \/ UpdateResets \/ UpdateReturns
  <2>1. Step("update")  BY <1>9 DEF UpdateLocked, UpdateResets, UpdateReturns
  <2> QED  BY <2>1
<1>10. CASE ResumeLocked \/ ResumeReturns
  <2>1. Step("resume")  BY <1>10 DEF ResumeLocked, ResumeReturns
  <2> QED  BY <2>1
<1> QED  BY <1>1, <1>2, <1>3, <1>4, <1>5, <1>6, <1>7, <1>8, <1>9, <1>10

LEMMA ArrivalTasks ==
  ASSUME SyncInv, LockInv, TasksRun,
         \/ \E c \in Calls : CallArrives(c)
         \/ ServersCancel \/ ServersReset \/ ServersResume \/ QueueSizeAnswers \/ ValidationArrives
         \/ FinishSignalArrives \/ MonitorTimer
  PROVE  TasksRun'
<1> USE DEF Names, Calls, flowVars, TaskAwake
<1>1. CASE ServersCancel
  <2>1. \A s \in Samples : task'[s] \in TaskAwake <=> task[s] \in TaskAwake  BY <1>1 DEF ServersCancel
  <2> PICK n : n = "pause"  OBVIOUS
  <2> QED  BY <1>1, <2>1, TasksHear DEF ServersCancel
<1>2. CASE ~ServersCancel
  <2>1. UNCHANGED task /\ \E n \in Names : Wake(Co(n))
    BY <1>2 DEF CallArrives, ServersReset, ServersResume, QueueSizeAnswers, ValidationArrives,
                FinishSignalArrives, MonitorTimer
  <2> QED  BY <2>1, TasksHear
<1> QED  BY <1>1, <1>2

\* The steps that create a task, or let one run, answer to it or end.
LEMMA TaskTasks ==
  ASSUME LockInv, FlowInv, TasksRun, NEW t \in Samples,
         TaskStarts(t) \/ TaskCompletes(t) \/ TaskEnds(t) \/ Generation(t)
  PROVE  TasksRun'
<1>0. /\ ready \in Seq(Coroutines) /\ Task(t) \in Coroutines
      /\ task \in [Samples -> TaskStates]
      /\ \A s \in Samples : /\ Once(ready, Task(s))
                            /\ In(ready, Task(s)) <=> task[s] \in TaskAwake
                            /\ Task(s) = Task(t) <=> s = t
  BY Distinct DEF LockInv, Coroutines, FlowInv, FlowType, TasksRun
<1>1. CASE TaskStarts(t) \/ TaskCompletes(t) \/ TaskEnds(t)
  <2>1. PICK w \in Seq(Named) : Suspend(w)
    BY <1>1, NamedLists DEF TaskStarts, TaskCompletes, TaskEnds
  <2>2. /\ Runs(Task(t)) /\ task'[t] \notin TaskAwake
        /\ \A s \in Samples : s /= t => task'[s] = task[s]
    BY <1>0, <1>1 DEF TaskStarts, TaskCompletes, TaskEnds, TaskAwake
  <2>3. ready /= <<>> /\ Head(ready) = Task(t) /\ ready' = Tail(ready) \o w
    BY <2>1, <2>2 DEF Runs, Suspend
  <2>4. ASSUME NEW s \in Samples
        PROVE  Once(ready', Task(s)) /\ (In(ready', Task(s)) <=> In(ready, Task(s)) /\ s /= t)
    <3>1. w \in Seq(Coroutines) /\ ~In(w, Task(s)) /\ Once(w, Task(s))  BY NamedQueue DEF In, Once
    <3>2. /\ Tail(ready) \in Seq(Coroutines) /\ Once(Tail(ready), Task(s))
          /\ In(Tail(ready), Task(s)) <=> In(ready, Task(s)) /\ Task(s) /= Head(ready)
      BY <1>0, <2>3, HeadLeaves
    <3> QED  BY <1>0, <2>3, <3>1, <3>2, Joined
  <2> QED  BY <1>0, <2>2, <2>4 DEF TasksRun
<1>2. CASE GenerationEnds(t) \/ PutArrives(t)
  <2>1. /\ ready' = Append(ready, Task(t)) /\ task[t] \notin TaskAwake /\ task'[t] \in TaskAwake
        /\ \A s \in Samples : s /= t => task'[s] = task[s]
    BY <1>0, <1>2 DEF GenerationEnds, PutArrives, Wake, TaskAwake
  <2>2. ASSUME NEW s \in Samples
        PROVE  Once(ready', Task(s)) /\ (In(ready', Task(s)) <=> In(ready, Task(s)) \/ s = t)
    BY <1>0, <2>1, Appended
  <2> QED  BY <1>0, <2>1, <2>2 DEF TasksRun
<1>3. CASE ServerAccepts(t)
  <2>1. ready' = ready /\ \A s \in Samples : task'[s] \in TaskAwake <=> task[s] \in TaskAwake
    BY <1>0, <1>3 DEF ServerAccepts, Accepted, loopVars, TaskAwake
  <2> QED  BY <2>1 DEF TasksRun
<1> QED  BY <1>1, <1>2, <1>3 DEF Generation

LEMMA SubmitsTasks ==
  ASSUME LockInv, FlowInv, TasksRun, ProcSubmits
  PROVE  TasksRun'
<1>1. /\ task' = [task EXCEPT ![hand] = "created"] /\ pc["proc"] = "submit"
      /\ ready' = ready \o (<<Task(hand)>> \o NextOwner)
  BY DEF ProcSubmits, GoOn
<1>2. hand \in Samples /\ task[hand] = "none"
  BY <1>1 DEF FlowInv, FlowType, InHand, PlacedOnce
<1> DEFINE w == <<Task(hand)>>
<1>3. /\ ready \in Seq(Coroutines) /\ w \in Seq(Coroutines) /\ NextOwner \in Seq(Coroutines)
  <2>1. ready \in Seq(Coroutines) /\ NextOwner \in Seq(Named)  BY NamedLists DEF LockInv
  <2>2. NextOwner \in Seq(Coroutines)  BY <2>1, NamedQueue
  <2>3. Task(hand) \in Coroutines  BY <1>2 DEF Coroutines
  <2> QED  BY <2>1, <2>2, <2>3
<1>4. ASSUME NEW s \in Samples
      PROVE  Once(ready', Task(s)) /\ (In(ready', Task(s)) <=> In(ready, Task(s)) \/ s = hand)
  <2>1. ~In(NextOwner, Task(s)) /\ Once(NextOwner, Task(s))  BY NamedLists, NamedQueue DEF In, Once
  <2>2. Once(w, Task(s)) /\ (In(w, Task(s)) <=> s = hand)  BY <1>2, Distinct DEF In, Once
  <2>3. Once(ready, Task(s)) /\ (s = hand => ~In(ready, Task(s)))
    BY <1>2 DEF TasksRun, TaskAwake
  <2> HIDE DEF w
  <2>4. /\ w \o NextOwner \in Seq(Coroutines) /\ Once(w \o NextOwner, Task(s))
        /\ In(w \o NextOwner, Task(s)) <=> s = hand
    BY <1>3, <2>1, <2>2, Joined
  <2>5. ready' = ready \o (w \o NextOwner)  BY <1>1 DEF w
  <2> DEFINE v == w \o NextOwner
  <2>6. /\ v \in Seq(Coroutines) /\ Once(v, Task(s)) /\ (In(v, Task(s)) <=> s = hand)
        /\ ready' = ready \o v
    BY <2>4, <2>5
  <2> HIDE DEF v
  <2>7. /\ In(ready \o v, Task(s)) <=> In(ready, Task(s)) \/ In(v, Task(s))
        /\ Once(ready, Task(s)) /\ Once(v, Task(s)) /\ ~(In(ready, Task(s)) /\ In(v, Task(s)))
             => Once(ready \o v, Task(s))
    BY <1>3, <2>6, Joined
  <2> QED  BY <2>3, <2>6, <2>7
<1>5. \A s \in Samples : task'[s] = IF s = hand THEN "created" ELSE task[s]
  BY <1>1 DEF FlowInv, FlowType
<1> QED  BY <1>4, <1>5 DEF TasksRun, TaskAwake

LEMMA InitAsync == Init => AsyncInv
<1> SUFFICES ASSUME Init PROVE LockInv /\ TasksRun  BY InitSync, InitFlow DEF AsyncInv
<1>1. /\ ready = <<Co("main"), Co("monitor")>> /\ holder = Nobody /\ lockQueue = <<>>
      /\ pc = [n \in Names |-> CASE n = "main" -> "start" [] n = "monitor" -> "check" [] OTHER -> "none"]
      /\ task = [s \in Samples |-> "none"]
  BY DEF Init, RolloutInit
<1> PICK m, n : m = "main" /\ n = "monitor"  OBVIOUS
<1>2. m \in Names /\ n \in Names /\ m /= n  BY DEF Names
<1>3. Wakes(ready, {m, n})  BY <1>1, <1>2, WakesTwo
<1>4. lockQueue \in Seq({Co(k) : k \in Names}) /\ \A k \in Names : Once(lockQueue, Co(k)) /\ ~In(lockQueue, Co(k))
  BY <1>1, EmptySeq DEF Once, In
<1>5. \A k \in Names : /\ ~Suspended(k, pc[k]) <=> k \in {m, n}
                       /\ ~Holding(k, pc[k])
  BY <1>1 DEF Names, Suspended, Holding, Entering, Calls
<1>6. LockInv  BY <1>1, <1>3, <1>4, <1>5, Distinct DEF LockInv, Wakes
<1>7. \A s \in Samples : ~In(ready, Task(s)) /\ Once(ready, Task(s))
  <2>1. <<Co(m), Co(n)>> = <<Co(m)>> \o <<Co(n)>>  OBVIOUS
  <2>2. ready \in Seq(Named)  BY <1>1, <1>2, <1>6, <2>1, NamedLists
  <2> QED  BY <2>2, NamedQueue DEF In, Once
<1>8. TasksRun  BY <1>1, <1>7 DEF TasksRun, TaskAwake
<1> QED  BY <1>6, <1>8

\* A step that leaves the event loop and the samples' tasks alone.
LEMMA LoopStands ==
  ASSUME AsyncInv, UNCHANGED <<ready, holder, lockQueue, pc, task>>
  PROVE  LockInv' /\ TasksRun'
BY DEF AsyncInv, LockInv, TasksRun

LEMMA NextAsync ==
  ASSUME AsyncInv, [Next]_vars
  PROVE  AsyncInv'
<1> USE DEF AsyncInv
<1>0. SyncInv'  BY NextSync
<1>1. CASE Rollout
  <2>1. LoopStep \/ Arrival \/ MonitorTimer  BY <1>1 DEF Rollout, RolloutNext
  <2>2. CASE LoopStep
    <3>1. CASE MainStart \/ MainWoken \/ MainAcquires \/ MainStops
      BY <3>1, <1>0, MainLock, FlowAside, FlowKept, LoopTasks
    <3>2. CASE FeedPut \/ FeedBlocks  BY <3>2, <1>0, FeedLock, FeedFlow, FlowAside, FlowKept, LoopTasks
    <3>3. CASE Processor
      <4>1. pc["proc"] = "submit" => hand \in Samples  BY DEF FlowInv, FlowType, InHand
      <4>2. LockInv'  BY <3>3, <4>1, ProcessorLock
      <4>3. FlowInv'
        BY <3>3, FlowAside, FlowKept, TakesCancelledFlow, TakesFlow, SubmitsFlow DEF Processor
      <4>4. TasksRun'  BY <3>3, LoopTasks, SubmitsTasks
      <4> QED  BY <1>0, <4>2, <4>3, <4>4
    <3>4. CASE Monitor  BY <3>4, <1>0, MonitorLock, FlowAside, FlowKept, LoopTasks
    <3>5. CASE \E s \in Samples : TaskStarts(s) \/ TaskCompletes(s) \/ TaskEnds(s)
      BY <3>5, <1>0, TaskLock, FlowTask, FlowKept, TaskEndsFlow, TaskTasks
    <3>6. CASE \E c \in Calls : CallAcquires(c)  BY <3>6, <1>0, CallLock, FlowCalls, FlowKept, LoopTasks
    <3>7. CASE \/ PauseLocked \/ PauseGathers \/ PauseGathered \/ PauseReturns
               \/ UpdateLocked \/ UpdateResets \/ UpdateReturns
               \/ ResumeLocked \/ ResumeReturns
      BY <3>7, <1>0, SyncLock, FlowCalls, FlowKept, LoopTasks
    <3> QED  BY <2>2, <3>1, <3>2, <3>3, <3>4, <3>5, <3>6, <3>7 DEF LoopStep
  <2>3. CASE Arrival
    <3>1. CASE \E s \in Samples : Generation(s)
      BY <3>1, <1>0, TaskLock, FlowTask, FlowKept, PutFlow, TaskTasks DEF Generation
    <3>2. CASE \E c \in Calls : CallArrives(c)  BY <3>2, <1>0, CallLock, FlowCalls, FlowKept, ArrivalTasks
    <3>3. CASE \/ ServersCancel \/ ServersReset \/ ServersResume
               \/ QueueSizeAnswers \/ ValidationArrives
      BY <3>3, <1>0, SyncLock, FlowCalls, FlowKept, ArrivalTasks
    <3>4. CASE FinishSignalArrives  BY <3>4, <1>0, MainLock, SignalFlow, ArrivalTasks
    <3> QED  BY <2>3, <3>1, <3>2, <3>3, <3>4 DEF Arrival
  <2>4. CASE MonitorTimer  BY <2>4, <1>0, MonitorLock, FlowAside, FlowKept, ArrivalTasks
  <2> QED  BY <2>1, <2>2, <2>3, <2>4
<1>2. CASE Train
  <2>1. TrainNext /\ UNCHANGED rolloutVars  BY <1>2 DEF Train
  <2>2. LockInv' /\ TasksRun'  BY <2>1, LoopStands DEF rolloutVars, loopVars, flowVars
  <2>3. CASE Collect  BY <1>0, <2>1, <2>2, <2>3, CollectFlow
  <2>4. CASE ~Collect
    <3>1. UNCHANGED <<queue, got>>
      BY <2>1, <2>4 DEF TrainNext, LogValidation, MQ!GetValidate, CollectWaits, MQ!GetSampleWaits, TrainStep,
                        SyncPauses, SyncVersions, MQ!UpdateParamVersion, SyncTransfers, SaveCheckpoint,
                        LastWait, DecideExtraSync, mqVars
    <3> QED  BY <1>0, <2>1, <2>2, <3>1, FlowTrain, FlowKept
  <2> QED  BY <2>3, <2>4
<1>3. CASE RunnerClears
  <2>1. LockInv' /\ TasksRun'  BY <1>3, LoopStands DEF RunnerClears, rolloutVars, loopVars, flowVars
  <2> QED  BY <1>0, <1>3, <2>1, ClearFlow
<1>4. CASE UNCHANGED vars
  <2>1. UNCHANGED rolloutVars /\ UNCHANGED <<queue, got>>  BY <1>4 DEF vars, mqVars
  <2>2. LockInv' /\ TasksRun'  BY <2>1, LoopStands DEF rolloutVars, loopVars, flowVars
  <2> QED  BY <1>0, <2>1, <2>2, FlowTrain, FlowKept
<1> QED  BY <1>1, <1>2, <1>3, <1>4 DEF Next, Terminated

\* The event loop runs each coroutine once at a time, and none that waits for the
\* lock: no wake-up is given twice (asyncio.Condition, AsyncioLoop.tla).
THEOREM EachOnceHolds == Spec => []EachOnce
<1>1. ASSUME AsyncInv PROVE EachOnce
  <2>1. /\ ready \in Seq(Coroutines) /\ lockQueue \in Seq(Named) /\ (holder = Nobody => lockQueue = <<>>)
        /\ \A n \in Names : /\ Once(ready, Co(n)) /\ Once(lockQueue, Co(n))
                            /\ In(ready, Co(n)) => ~In(lockQueue, Co(n))
        /\ \A s \in Samples : Once(ready, Task(s))
    BY <1>1 DEF AsyncInv, LockInv, TasksRun, Named
  <2>2. \A i \in 1 .. Len(ready) : Once(ready, ready[i])
    <3>1. \A i \in 1 .. Len(ready) : ready[i] \in Coroutines  BY <2>1, ElementOfSeq
    <3> QED  BY <2>1, <3>1 DEF Coroutines
  <2>3. \A i \in 1 .. Len(lockQueue) : lockQueue[i] \in Named  BY <2>1, ElementOfSeq
  <2>4. \A i \in 1 .. Len(lockQueue) : Once(lockQueue, lockQueue[i])  BY <2>1, <2>3 DEF Named
  <2>5. RangeOf(ready) \intersect RangeOf(lockQueue) = {}
    BY <2>1, <2>3 DEF RangeOf, Named, In
  <2>6. \A i, j \in 1 .. Len(ready) : ready[i] = ready[j] => i = j  BY <2>2 DEF Once
  <2>7. \A i, j \in 1 .. Len(lockQueue) : lockQueue[i] = lockQueue[j] => i = j  BY <2>4 DEF Once
  <2> QED  BY <2>1, <2>5, <2>6, <2>7 DEF EachOnce
<1>2. AsyncInv /\ [Next]_vars => AsyncInv'  BY NextAsync
<1> QED  BY InitAsync, <1>1, <1>2, PTL DEF Spec
-----------------------------------------------------------------------------
(* How many samples the rollout holds.                                     *)

LEMMA Finite ==
  /\ IsFiniteSet(Samples) /\ MaxRequiredSamples \in Nat \ {0}
  /\ \A S \in SUBSET Samples : IsFiniteSet(S) /\ Cardinality(S) \in Nat
  /\ \A S \in SUBSET Samples : \A T \in SUBSET S : Cardinality(T) <= Cardinality(S)
<1>1. TotalSteps \in Nat  BY SharedAssumption
<1>2. IsFiniteSet(Samples)  BY <1>1, FS_Interval DEF Samples
<1>3. \A S \in SUBSET Samples : IsFiniteSet(S) /\ Cardinality(S) \in Nat
  BY <1>2, FS_Subset, FS_CardinalityType
<1>4. \A S \in SUBSET Samples : \A T \in SUBSET S : Cardinality(T) <= Cardinality(S)
  BY <1>3, FS_Subset
<1>5. SamplesPerSync \in Nat \ {0}  BY SharedAssumption DEF SamplesPerSync
<1>6. MaxRequiredSamples \in Nat \ {0}  BY <1>5, SharedAssumption DEF MaxRequiredSamples
<1> QED  BY <1>2, <1>3, <1>4, <1>6

LEMMA HeldSets ==
  /\ Waiting \subseteq Samples /\ Handed \subseteq Samples /\ Held \subseteq Samples
  /\ Waiting \subseteq Handed /\ Handed \subseteq Held /\ InQueue \subseteq Samples
BY DEF Waiting, Handed, Held, InTask, InCancel, InQueue

\* Members of a sequence, counted once each.
LEMMA Listed ==
  ASSUME NEW S, NEW q \in Seq(S), NEW T, \A x \in T : In(q, x)
  PROVE  IsFiniteSet(T) /\ Cardinality(T) <= Len(q)
<1> DEFINE I == 1 .. Len(q)
           f == [i \in I |-> q[i]]
           R == {q[i] : i \in I}
<1>1. Len(q) \in Nat  BY LenProperties
<1>2. IsFiniteSet(I) /\ Cardinality(I) = Len(q)  BY <1>1, FS_Interval, SMTT(60)
<1>3. f \in Surjection(I, R)  BY DEF Surjection
<1>4. IsFiniteSet(R) /\ Cardinality(R) <= Cardinality(I)  BY <1>2, <1>3, FS_Surjection
<1>5. T \in SUBSET R  BY DEF In
<1>6. IsFiniteSet(T) /\ Cardinality(T) <= Cardinality(R)  BY <1>4, <1>5, FS_Subset
<1>7. Cardinality(R) \in Nat /\ Cardinality(T) \in Nat  BY <1>4, <1>6, FS_CardinalityType
<1> QED  BY <1>1, <1>2, <1>4, <1>6, <1>7

\* One more.
LEMMA OneMore ==
  ASSUME NEW S \in SUBSET Samples, NEW x, NEW T \in SUBSET Samples, T \subseteq S \union {x}
  PROVE  Cardinality(T) <= Cardinality(S) + 1
<1>1. IsFiniteSet(S) /\ Cardinality(S) \in Nat  BY Finite
<1>2. /\ IsFiniteSet(S \union {x})
      /\ Cardinality(S \union {x}) = IF x \in S THEN Cardinality(S) ELSE Cardinality(S) + 1
  BY <1>1, FS_AddElement
<1>3. Cardinality(T) <= Cardinality(S \union {x}) /\ Cardinality(T) \in Nat  BY <1>2, FS_Subset, Finite
<1> QED  BY <1>1, <1>2, <1>3

\* What goes on without taking or submitting a sample.
CountStays ==
  /\ Waiting' \subseteq Waiting /\ Handed' \subseteq Handed /\ Held' \subseteq Held
  /\ UNCHANGED <<stalenessSamples, snapshot>>
  /\ finished' \in Nat /\ failed' \subseteq Samples
  /\ pc'["proc"] \in {"getting", "takes"} => pc["proc"] \in {"getting", "takes"}
  /\ pc'["update"] \in {"sizing", "sized"} => pc'["update"] = pc["update"]

LEMMA CountKept ==
  ASSUME CountInv, CountStays
  PROVE  CountInv'
<1>1. Cardinality(Held') <= Cardinality(Held) /\ Cardinality(Waiting') <= Cardinality(Waiting)
      /\ Cardinality(Handed') <= Cardinality(Handed)
  BY Finite, HeldSets DEF CountStays
<1>2. Held' \in SUBSET Samples /\ Waiting' \in SUBSET Samples /\ Handed' \in SUBSET Samples
  BY HeldSets DEF CountStays
<1>3. /\ {Cardinality(Held), Cardinality(Waiting), Cardinality(Handed)} \subseteq Nat
      /\ {Cardinality(Held'), Cardinality(Waiting'), Cardinality(Handed')} \subseteq Nat
  BY <1>2, Finite, HeldSets
<1> QED  BY <1>1, <1>3, Finite DEF CountInv, CountStays

\* The same samples are held.
LEMMA HeldStays ==
  ASSUME FlowStays
  PROVE  Waiting' = Waiting /\ Handed' = Handed /\ Held' = Held
<1>1. InTask' = InTask  BY DEF FlowStays, Onward, InTask
<1>2. UNCHANGED <<cancelQueue, queue, hand>>  BY DEF FlowStays
<1>3. InCancel' = InCancel /\ InQueue' = InQueue  BY <1>2 DEF InCancel, InQueue
<1> QED  BY <1>1, <1>2, <1>3 DEF Waiting, Handed, Held

LEMMA CountAside ==
  ASSUME SyncInv, FlowStays, CountInv,
         \/ MainStart \/ MainWoken \/ MainAcquires \/ MainStops \/ FeedBlocks
         \/ ProcPauses \/ ProcSetsPaused \/ ProcLoopEnds \/ ProcLoopAcquires
         \/ ProcWaits \/ ProcSkipsWait \/ ProcReaps \/ ProcIdles \/ ProcHoldsBack \/ ProcNotified
         \/ Monitor \/ MonitorTimer
  PROVE  CountInv'
<1> SUFFICES CountStays  BY CountKept
<1>0. Waiting' = Waiting /\ Handed' = Handed /\ Held' = Held  BY HeldStays
<1> USE <1>0 DEF SyncInv, SyncType, CountInv, CountStays, Goto, EndWorker, Names,
            flowVars, modeVars, restVars, mqVars
<1>1. CASE MainStart  BY <1>1 DEF MainStart
<1>2. CASE MainWoken  BY <1>2 DEF MainWoken, AfterWorkers
<1>3. CASE MainAcquires  BY <1>3 DEF MainAcquires
<1>4. CASE MainStops  BY <1>4 DEF MainStops
<1>5. CASE FeedBlocks  BY <1>5 DEF FeedBlocks
<1>6. CASE ProcPauses  BY <1>6 DEF ProcPauses
<1>7. CASE ProcSetsPaused  BY <1>7 DEF ProcSetsPaused
<1>8. CASE ProcLoopEnds  BY <1>8 DEF ProcLoopEnds
<1>9. CASE ProcLoopAcquires  BY <1>9 DEF ProcLoopAcquires
<1>10. CASE ProcWaits  BY <1>10 DEF ProcWaits
<1>11. CASE ProcSkipsWait  BY <1>11 DEF ProcSkipsWait
<1>12. CASE ProcReaps  BY <1>12 DEF ProcReaps
<1>13. CASE ProcIdles  BY <1>13 DEF ProcIdles
<1>14. CASE ProcHoldsBack  BY <1>14 DEF ProcHoldsBack
<1>15. CASE ProcNotified  BY <1>15 DEF ProcNotified
<1>16. CASE MonitorAcquires  BY <1>16 DEF MonitorAcquires
<1>17. CASE MonitorChecks  BY <1>17 DEF MonitorChecks
<1>18. CASE MonitorDecides  BY <1>18 DEF MonitorDecides
<1>19. CASE MonitorUnpauses  BY <1>19 DEF MonitorUnpauses, Notified
<1>20. CASE MonitorTimer  BY <1>20 DEF MonitorTimer
<1> QED
  BY <1>1, <1>2, <1>3, <1>4, <1>5, <1>6, <1>7, <1>8, <1>9, <1>10, <1>11, <1>12, <1>13, <1>14,
     <1>15, <1>16, <1>17, <1>18, <1>19, <1>20 DEF Monitor

LEMMA CountCalls ==
  ASSUME SyncInv, FlowStays, CountInv,
         \/ \E c \in Calls : CallArrives(c) \/ CallAcquires(c)
         \/ PauseLocked \/ ServersCancel \/ PauseGathers \/ PauseGathered \/ ServersReset \/ PauseReturns
         \/ ValidationArrives \/ UpdateReturns
         \/ ResumeLocked \/ ServersResume \/ ResumeReturns
  PROVE  CountInv'
<1> SUFFICES CountStays  BY CountKept
<1>0. Waiting' = Waiting /\ Handed' = Handed /\ Held' = Held  BY HeldStays
<1> USE <1>0 DEF SyncInv, SyncType, CountInv, CountStays, Goto, Names, Calls,
            flowVars, modeVars, restVars, mqVars
<1>1. CASE \E c \in Calls : CallArrives(c)  BY <1>1 DEF CallArrives
<1>2. CASE \E c \in Calls : CallAcquires(c)  BY <1>2 DEF CallAcquires
<1>3. CASE PauseLocked  BY <1>3 DEF PauseLocked
<1>4. CASE ServersCancel  BY <1>4 DEF ServersCancel
<1>5. CASE PauseGathers  BY <1>5 DEF PauseGathers
<1>6. CASE PauseGathered  BY <1>6 DEF PauseGathered
<1>7. CASE ServersReset  BY <1>7 DEF ServersReset
<1>8. CASE PauseReturns  BY <1>8 DEF PauseReturns
<1>9. CASE ValidationArrives  BY <1>9 DEF ValidationArrives, MQ!PutValidate
<1>10. CASE UpdateReturns  BY <1>10 DEF UpdateReturns
<1>11. CASE ResumeLocked  BY <1>11 DEF ResumeLocked
<1>12. CASE ServersResume  BY <1>12 DEF ServersResume
<1>13. CASE ResumeReturns  BY <1>13 DEF ResumeReturns, Notified
<1> QED
  BY <1>1, <1>2, <1>3, <1>4, <1>5, <1>6, <1>7, <1>8, <1>9, <1>10, <1>11, <1>12, <1>13

LEMMA CountTask ==
  ASSUME FlowStays, CountInv, NEW s \in Samples,
         TaskStarts(s) \/ TaskCompletes(s) \/ ServerAccepts(s) \/ GenerationEnds(s)
  PROVE  CountInv'
<1>0. Waiting' = Waiting /\ Handed' = Handed /\ Held' = Held  BY HeldStays
<1>1. CountStays
  BY <1>0 DEF CountInv, CountStays, restVars, TaskStarts, TaskCompletes, ServerAccepts, GenerationEnds
<1> QED  BY <1>1, CountKept

LEMMA CountTrain ==
  ASSUME FlowStays, CountInv, UNCHANGED rolloutVars
  PROVE  CountInv'
<1>0. Waiting' = Waiting /\ Handed' = Handed /\ Held' = Held  BY HeldStays
<1>1. CountStays  BY <1>0 DEF CountInv, CountStays, rolloutVars, flowVars, restVars
<1> QED  BY <1>1, CountKept

\* Taking a sample: one more is held, and one more is counted.
LEMMA CountTakes ==
  ASSUME SyncInv, LockInv, FlowInv, CountInv, ProcTakes
  PROVE  CountInv'
<1> DEFINE x == Head(pendingQueue)
<1>1. /\ pc["proc"] \in {"top", "takes"} /\ (pc["proc"] = "top" => ~ShouldPause)
      /\ pc' = [pc EXCEPT !["proc"] = "loop", !["feed"] = FeedUnblocked(@)]
      /\ stalenessSamples' = stalenessSamples + 1
      /\ hand' = IF x = End THEN NoSample ELSE x
      /\ UNCHANGED <<cancelQueue, task, queue, finished, failed, snapshot>>
  BY DEF ProcTakes, mqVars
<1>2. Waiting' = Waiting /\ Handed' = Handed  BY <1>1 DEF Waiting, Handed, InTask, InCancel, InQueue
<1>3. Held' \subseteq Held \union {hand'}  BY <1>2 DEF Held
<1>4. Held \in SUBSET Samples /\ Held' \in SUBSET Samples  BY HeldSets DEF Held, Handed, Waiting, InTask, InCancel, InQueue
<1>5. Cardinality(Held') <= Cardinality(Held) + 1  BY <1>3, <1>4, OneMore
<1>6. Cardinality(Held) \in Nat /\ Cardinality(Held') \in Nat /\ MaxRequiredSamples \in Nat  BY <1>4, Finite
<1>7. stalenessSamples \in Nat /\ Cardinality(Held) <= stalenessSamples + 1
      /\ (pc["proc"] = "takes" => Cardinality(Held) <= MaxRequiredSamples)
  BY DEF CountInv
<1>8. pc["proc"] = "top" => stalenessSamples < MaxRequiredSamples  BY <1>1, <1>6, <1>7 DEF ShouldPause
<1>9. Cardinality(Held) <= MaxRequiredSamples  BY <1>1, <1>6, <1>7, <1>8
<1>10. pc'["proc"] = "loop" /\ pc'["update"] = pc["update"]  BY <1>1 DEF SyncInv, SyncType, Names
<1>11. /\ Cardinality(Held') <= stalenessSamples' + 1 /\ Cardinality(Held') <= MaxRequiredSamples + 1
       /\ stalenessSamples' \in Nat
  BY <1>1, <1>5, <1>6, <1>7, <1>9
<1> QED  BY <1>1, <1>2, <1>10, <1>11 DEF CountInv

LEMMA CountLooks ==
  ASSUME SyncInv, FlowInv, CountInv, FeedPut \/ ProcAwaitsSample \/ ProcTakesCancelled
  PROVE  CountInv'
<1> USE DEF SyncInv, SyncType, Names
<1>1. CASE FeedPut
  <2>1. /\ pc'["proc"] \in {"getting", "takes"} => pc["proc"] \in {"getting", "takes"}
        /\ pc'["update"] = pc["update"]
        /\ UNCHANGED <<cancelQueue, hand, task, queue, finished, failed, snapshot, stalenessSamples>>
    BY <1>1 DEF FeedPut, mqVars
  <2>2. CountStays  BY <2>1 DEF CountInv, CountStays, Held, Handed, Waiting, InTask, InCancel, InQueue
  <2> QED  BY <2>2, CountKept
<1>2. CASE ProcAwaitsSample
  <2>1. /\ pc' = [pc EXCEPT !["proc"] = "getting"] /\ ~ShouldPause
        /\ UNCHANGED <<cancelQueue, hand, task, queue, finished, failed, snapshot, stalenessSamples>>
    BY <1>2 DEF ProcAwaitsSample, Goto, mqVars, flowVars, restVars
  <2>2. Held' = Held /\ Handed' = Handed /\ Waiting' = Waiting
    BY <2>1 DEF Held, Handed, Waiting, InTask, InCancel, InQueue
  <2>3. Cardinality(Held) \in Nat /\ MaxRequiredSamples \in Nat /\ stalenessSamples \in Nat
    BY Finite, HeldSets DEF CountInv
  <2>4. stalenessSamples < MaxRequiredSamples  BY <2>1, <2>3 DEF ShouldPause
  <2>5. Cardinality(Held) <= MaxRequiredSamples  BY <2>3, <2>4 DEF CountInv
  <2>6. pc'["update"] = pc["update"]  BY <2>1
  <2> QED  BY <2>1, <2>2, <2>5, <2>6 DEF CountInv
<1>3. CASE ProcTakesCancelled
  <2>1. /\ pc' = [pc EXCEPT !["proc"] = "loop"] /\ cancelQueue /= <<>>
        /\ hand' = Head(cancelQueue) /\ cancelQueue' = Tail(cancelQueue)
        /\ UNCHANGED <<task, queue, finished, failed, snapshot, stalenessSamples>>
    BY <1>3 DEF ProcTakesCancelled, Goto, mqVars
  <2>2. cancelQueue \in Seq(Samples)  BY DEF FlowInv, FlowType
  <2>3. /\ hand' \in Samples /\ In(cancelQueue, hand')
        /\ \A s \in Samples : Once(cancelQueue, s) /\ (In(cancelQueue', s) <=> In(cancelQueue, s) /\ s /= hand')
    BY <2>1, <2>2, HeadLeaves DEF FlowInv, PlacedOnce
  <2>4. InCancel' \subseteq InCancel /\ hand' \in InCancel  BY <2>3 DEF InCancel
  <2>5. InTask' = InTask /\ InQueue' = InQueue  BY <2>1 DEF InTask, InQueue
  <2>6. Waiting' \subseteq Waiting /\ Handed' \subseteq Handed /\ hand' \in Handed
    BY <2>4, <2>5 DEF Waiting, Handed
  <2>7. Held' \subseteq Held  BY <2>6 DEF Held
  <2>8. CountStays  BY <2>1, <2>6, <2>7 DEF CountInv, CountStays
  <2> QED  BY <2>8, CountKept
<1> QED  BY <1>1, <1>2, <1>3

\* Submitting: the sample was held already, and update_param_version, which has
\* the lock, is not adding up.
LEMMA CountSubmits ==
  ASSUME SyncInv, LockInv, FlowInv, CountInv, ProcSubmits
  PROVE  CountInv'
<1>1. /\ task' = [task EXCEPT ![hand] = "created"] /\ hand' = NoSample
      /\ pc["proc"] = "submit" /\ pc' = [pc EXCEPT !["proc"] = "top"] /\ Runs(Co("proc"))
      /\ UNCHANGED <<cancelQueue, queue, finished, failed, snapshot, stalenessSamples>>
  BY DEF ProcSubmits, Goto, mqVars, restVars
<1>2. pc["update"] \notin {"sizing", "sized"}
  <2> PICK p, u : p = "proc" /\ u = "update"  OBVIOUS
  <2>1. p \in Names /\ u \in Names /\ p /= u  BY DEF Names
  <2>2. Holding(p, pc[p]) /\ Runs(Co(p))  BY <1>1 DEF Holding, Entering
  <2>3. holder = Co(p)  BY <2>1, <2>2, RunsAwake
  <2>4. holder /= Co(u)  BY <2>1, <2>3, Distinct
  <2>5. Holding(u, pc[u]) => Entering(u, pc[u])  BY <2>1, <2>4 DEF LockInv
  <2> QED  BY <2>5 DEF Holding, Entering, Calls
<1>3. hand \in Samples  BY <1>1 DEF FlowInv, FlowType, InHand
<1>4. InTask' \subseteq InTask \union {hand}
  BY <1>1, <1>3 DEF InTask, FlowInv, FlowType
<1>5. InCancel' = InCancel /\ InQueue' = InQueue  BY <1>1 DEF InCancel, InQueue
<1>6. Held' \subseteq Held
  <2>1. NoSample \notin Samples  BY DEF NoSample, Samples
  <2> QED  BY <1>1, <1>3, <1>4, <1>5, <2>1 DEF Held, Handed, Waiting
<1>7. Cardinality(Held') <= Cardinality(Held) /\ Cardinality(Held) \in Nat /\ Cardinality(Held') \in Nat
      /\ MaxRequiredSamples \in Nat
  BY <1>6, HeldSets, Finite
<1>8. pc'["proc"] = "top" /\ pc'["update"] = pc["update"]  BY <1>1 DEF SyncInv, SyncType, Names
<1>9. stalenessSamples \in Nat /\ Cardinality(Held) <= stalenessSamples + 1
      /\ Cardinality(Held) <= MaxRequiredSamples + 1
  BY DEF CountInv
<1>10. Cardinality(Held') <= stalenessSamples + 1 /\ Cardinality(Held') <= MaxRequiredSamples + 1
  BY <1>7, <1>9
<1> QED  BY <1>1, <1>2, <1>8, <1>10 DEF CountInv

\* A task ends; what was interrupted goes on waiting in cancel_queue.
LEMMA CountEnds ==
  ASSUME SyncInv, FlowInv, CountInv, NEW t \in Samples, TaskEnds(t)
  PROVE  CountInv'
<1>1. /\ task[t] \in {"put", "cancelled", "raised"} /\ task' = [task EXCEPT ![t] = "none"]
      /\ cancelQueue' = IF task[t] = "cancelled" THEN Append(cancelQueue, t) ELSE cancelQueue
      /\ finished' = IF task[t] = "raised" THEN finished ELSE finished + 1
      /\ failed'   = IF task[t] = "raised" THEN failed \union {t} ELSE failed
      /\ pc' = PcAfterTaskEnd
      /\ UNCHANGED <<hand, queue, snapshot, stalenessSamples>>
  BY DEF TaskEnds, restVars, mqVars
<1>2. task \in [Samples -> TaskStates] /\ cancelQueue \in Seq(Samples)  BY DEF FlowInv, FlowType
<1>3. \A s \in Samples : In(cancelQueue', s) => In(cancelQueue, s) \/ (s = t /\ task[t] = "cancelled")
  <2>1. \A s \in Samples : In(Append(cancelQueue, t), s) <=> In(cancelQueue, s) \/ t = s
    BY <1>2, Appended
  <2> QED  BY <1>1, <2>1
<1>4. \A s \in Samples : task'[s] \notin {"none", "put"} => task[s] \notin {"none", "put"}
  BY <1>1, <1>2
<1>5. Waiting' \subseteq Waiting  BY <1>3, <1>4 DEF Waiting, InTask, InCancel
<1>6. Handed' \subseteq Handed /\ Held' \subseteq Held  BY <1>1, <1>5 DEF Handed, Held, InQueue
<1>7. finished' \in Nat /\ failed' \subseteq Samples  BY <1>1 DEF CountInv
<1>8. /\ pc'["proc"] \in {"getting", "takes"} => pc["proc"] \in {"getting", "takes"}
      /\ pc'["update"] = pc["update"]
  BY <1>1 DEF PcAfterTaskEnd, SyncInv, SyncType, Names
<1>9. CountStays  BY <1>1, <1>5, <1>6, <1>7, <1>8 DEF CountStays
<1> QED  BY <1>9, CountKept

\* The message queue takes the sample of a task, or the finish signal.
LEMMA CountPuts ==
  ASSUME SyncInv, FlowInv, CountInv,
         FinishSignalArrives \/ \E t \in Samples : PutArrives(t)
  PROVE  CountInv'
<1>1. CASE FinishSignalArrives
  <2>1. End \in 1 .. End /\ End \notin Samples  BY SharedAssumption DEF Samples, End
  <2>2. /\ MQ!PutSample(End) /\ pc' = [pc EXCEPT !["main"] = "sent"]
        /\ UNCHANGED <<hand, task, cancelQueue, finished, failed, snapshot, stalenessSamples>>
    BY <1>1 DEF FinishSignalArrives, Goto, flowVars, restVars
  <2>3. InQueue' \subseteq InQueue  BY <2>1, <2>2, PutQueue DEF InQueue
  <2>4. Waiting' = Waiting  BY <2>2 DEF Waiting, InTask, InCancel
  <2>5. Handed' \subseteq Handed /\ Held' \subseteq Held  BY <2>2, <2>3, <2>4 DEF Handed, Held
  <2>6. pc'["proc"] = pc["proc"] /\ pc'["update"] = pc["update"]  BY <2>2
  <2>7. CountStays  BY <2>2, <2>4, <2>5, <2>6 DEF CountStays, CountInv
  <2> QED  BY <2>7, CountKept
<1>2. ASSUME NEW t \in Samples, PutArrives(t) PROVE CountInv'
  <2>1. t \in 1 .. End  BY SharedAssumption DEF Samples, End
  <2>2. /\ MQ!PutSample(t) /\ task[t] = "putting" /\ task' = [task EXCEPT ![t] = "put"]
        /\ UNCHANGED <<pc, hand, cancelQueue, finished, failed, snapshot, stalenessSamples>>
    BY <1>2 DEF PutArrives, restVars
  <2>3. InQueue' \subseteq InQueue \union {t}  BY <2>1, <2>2, PutQueue DEF InQueue
  <2>4. task \in [Samples -> TaskStates]  BY DEF FlowInv, FlowType
  <2>5. InTask' \subseteq InTask /\ t \in InTask /\ InCancel' = InCancel
    BY <2>2, <2>4 DEF InTask, InCancel
  <2>6. Waiting' \subseteq Waiting /\ t \in Waiting  BY <2>5 DEF Waiting
  <2>7. Handed' \subseteq Handed  BY <2>3, <2>6 DEF Handed
  <2>8. Held' \subseteq Held  BY <2>2, <2>7 DEF Held
  <2>9. CountStays  BY <2>2, <2>6, <2>7, <2>8 DEF CountStays, CountInv
  <2> QED  BY <2>9, CountKept
<1> QED  BY <1>1, <1>2

LEMMA CountCollects ==
  ASSUME FlowInv, CountInv, UNCHANGED rolloutVars, Collect \/ RunnerClears
  PROVE  CountInv'
<1>1. queue \in Seq(1 .. End) /\ \A s \in Samples : Once(queue, s)
  BY DEF FlowInv, FlowType, PlacedOnce
<1>2. InQueue' \subseteq InQueue
  <2>1. CASE Collect
    <3>1. queue /= <<>> /\ queue' = Tail(queue)  BY <2>1 DEF Collect, MQ!GetSample
    <3> QED  BY <1>1, <3>1, HeadLeaves DEF InQueue
  <2>2. CASE RunnerClears
    <3>1. queue' = <<>>  BY <2>2 DEF RunnerClears, MQ!ClearQueue, mqVars
    <3> QED  BY <3>1 DEF InQueue, In
  <2> QED  BY <2>1, <2>2
<1>3. UNCHANGED <<pc, hand, task, cancelQueue, finished, failed, snapshot, stalenessSamples>>
  BY DEF rolloutVars, flowVars, restVars
<1>4. Waiting' = Waiting  BY <1>3 DEF Waiting, InTask, InCancel
<1>5. Handed' \subseteq Handed /\ Held' \subseteq Held  BY <1>2, <1>3, <1>4 DEF Handed, Held
<1>6. CountStays  BY <1>3, <1>4, <1>5 DEF CountStays, CountInv
<1> QED  BY <1>6, CountKept

\* update_param_version adds up the tasks and cancel_queue, then the queue.
LEMMA CountUpdates ==
  ASSUME SyncInv, FlowInv, CountInv, FlowStays,
         UpdateLocked \/ QueueSizeAnswers \/ UpdateResets
  PROVE  CountInv'
<1>0. Waiting' = Waiting /\ Handed' = Handed /\ Held' = Held  BY HeldStays
<1>1. /\ Cardinality(Held) \in Nat /\ Cardinality(Handed) \in Nat /\ Cardinality(Waiting) \in Nat
      /\ MaxRequiredSamples \in Nat
  BY Finite, HeldSets
<1> USE DEF SyncInv, SyncType, Names
<1>2. CASE UpdateLocked
  <2>1. /\ pc' = [pc EXCEPT !["update"] = "sizing"] /\ snapshot' = ActiveTasks + Len(cancelQueue)
        /\ UNCHANGED <<stalenessSamples, finished, failed>>
    BY <1>2 DEF UpdateLocked, Goto, flowVars
  <2>2. IsFiniteSet(InTask) /\ Cardinality(InTask) \in Nat /\ Cardinality(Live) \in Nat
        /\ Cardinality(InTask) <= Cardinality(Live)
    <3>1. InTask \in SUBSET Live /\ Live \in SUBSET Samples  BY DEF InTask, Live
    <3> QED  BY <3>1, Finite
  <2>3. Cardinality(failed) \in Nat /\ finished \in Nat  BY Finite DEF CountInv
  <2>4. IsFiniteSet(InCancel) /\ Cardinality(InCancel) <= Len(cancelQueue)
    <3>1. cancelQueue \in Seq(Samples)  BY DEF FlowInv, FlowType
    <3>2. \A s \in InCancel : In(cancelQueue, s)  BY DEF InCancel
    <3> QED  BY <3>1, <3>2, Listed
  <2>5. Len(cancelQueue) \in Nat  BY LenProperties DEF FlowInv, FlowType
  <2>6. Cardinality(Waiting) <= Cardinality(InTask) + Cardinality(InCancel)
    <3>1. Cardinality(Waiting) = Cardinality(InTask) + Cardinality(InCancel)
                                   - Cardinality(InTask \intersect InCancel)
      BY <2>2, <2>4, FS_Union DEF Waiting
    <3>2. Cardinality(InTask \intersect InCancel) \in Nat  BY <2>2, FS_Intersection, FS_CardinalityType
    <3>3. Cardinality(InCancel) \in Nat  BY <2>4, FS_CardinalityType
    <3> QED  BY <2>2, <3>1, <3>2, <3>3
  <2>7. Cardinality(InCancel) \in Nat  BY <2>4, FS_CardinalityType
  <2>8. Cardinality(Waiting) <= snapshot' /\ snapshot' \in Nat
    BY <1>1, <2>1, <2>2, <2>3, <2>4, <2>5, <2>6, <2>7, SMTT(60) DEF ActiveTasks
  <2>9. pc'["proc"] = pc["proc"] /\ pc'["update"] = "sizing"  BY <2>1
  <2> QED  BY <1>0, <2>1, <2>8, <2>9 DEF CountInv
<1>3. CASE QueueSizeAnswers
  <2>1. /\ pc["update"] = "sizing" /\ pc' = [pc EXCEPT !["update"] = "sized"]
        /\ snapshot' = snapshot + Len(queue)
        /\ UNCHANGED <<stalenessSamples, finished, failed>>
    BY <1>3 DEF QueueSizeAnswers, Goto, flowVars
  <2>2. queue \in Seq(1 .. End) /\ Len(queue) \in Nat  BY LenProperties DEF FlowInv, FlowType
  <2>3. IsFiniteSet(InQueue) /\ Cardinality(InQueue) <= Len(queue)
    <3>1. \A s \in InQueue : In(queue, s)  BY DEF InQueue
    <3> QED  BY <2>2, <3>1, Listed
  <2>4. Cardinality(Handed) <= Cardinality(Waiting) + Cardinality(InQueue)
    <3>1. IsFiniteSet(Waiting)  BY HeldSets, Finite
    <3>2. Cardinality(Handed) = Cardinality(Waiting) + Cardinality(InQueue)
                                  - Cardinality(Waiting \intersect InQueue)
      BY <2>3, <3>1, FS_Union DEF Handed
    <3>3. Cardinality(Waiting \intersect InQueue) \in Nat  BY <3>1, FS_Intersection, FS_CardinalityType
    <3>4. Cardinality(InQueue) \in Nat  BY <2>3, FS_CardinalityType
    <3> QED  BY <1>1, <3>2, <3>3, <3>4
  <2>5. Cardinality(InQueue) \in Nat  BY <2>3, FS_CardinalityType
  <2>6. Cardinality(Waiting) <= snapshot /\ snapshot \in Nat  BY <2>1 DEF CountInv
  <2>7. Cardinality(Handed) <= snapshot' /\ snapshot' \in Nat  BY <1>1, <2>1, <2>2, <2>3, <2>4, <2>5, <2>6
  <2>8. pc'["proc"] = pc["proc"] /\ pc'["update"] = "sized"  BY <2>1
  <2> QED  BY <1>0, <2>1, <2>7, <2>8 DEF CountInv
<1>4. CASE UpdateResets
  <2>1. /\ pc["update"] = "sized" /\ pc' = [pc EXCEPT !["update"] = "reporting"]
        /\ stalenessSamples' = snapshot /\ snapshot' = 0
        /\ UNCHANGED <<finished, failed>>
    BY <1>4 DEF UpdateResets, Goto, flowVars
  <2>2. Cardinality(Handed) <= snapshot /\ snapshot \in Nat  BY <2>1 DEF CountInv
  <2>3. Held \subseteq Handed \union {hand}  BY DEF Held
  <2>4. Cardinality(Held) <= Cardinality(Handed) + 1  BY <2>3, HeldSets, OneMore
  <2>5. Cardinality(Held) <= snapshot + 1  BY <1>1, <2>2, <2>4
  <2>6. pc'["proc"] = pc["proc"] /\ pc'["update"] = "reporting"  BY <2>1
  <2> QED  BY <1>0, <2>1, <2>2, <2>5, <2>6 DEF CountInv
<1> QED  BY <1>2, <1>3, <1>4

LEMMA InitCount == Init => CountInv
<1> SUFFICES ASSUME Init PROVE CountInv  OBVIOUS
<1>1. /\ pc["proc"] = "none" /\ pc["update"] = "none" /\ cancelQueue = <<>> /\ queue = <<>>
      /\ hand = NoSample /\ task = [s \in Samples |-> "none"]
      /\ stalenessSamples = 0 /\ snapshot = 0 /\ finished = 0 /\ failed = {}
  BY DEF Init, RolloutInit, SharedInit, Names
<1>2. Held = {} /\ Handed = {} /\ Waiting = {}
  <2>1. NoSample \notin Samples  BY DEF NoSample, Samples
  <2> QED  BY <1>1, <2>1 DEF Held, Handed, Waiting, InTask, InCancel, InQueue, In
<1>3. Cardinality({}) = 0  BY FS_EmptySet
<1> QED  BY <1>1, <1>2, <1>3, Finite DEF CountInv

LEMMA NextCount ==
  ASSUME AsyncInv, CountInv, [Next]_vars
  PROVE  CountInv'
<1> USE DEF AsyncInv
<1>1. CASE Rollout
  <2>1. LoopStep \/ Arrival \/ MonitorTimer  BY <1>1 DEF Rollout, RolloutNext
  <2>2. CASE LoopStep
    <3>1. CASE MainStart \/ MainWoken \/ MainAcquires \/ MainStops \/ FeedBlocks
      BY <3>1, FlowAside, CountAside
    <3>2. CASE FeedPut  BY <3>2, CountLooks
    <3>3. CASE Processor
      BY <3>3, FlowAside, CountAside, CountLooks, CountTakes, CountSubmits DEF Processor
    <3>4. CASE Monitor  BY <3>4, FlowAside, CountAside
    <3>5. CASE \E s \in Samples : TaskStarts(s) \/ TaskCompletes(s) \/ TaskEnds(s)
      BY <3>5, FlowTask, CountTask, CountEnds
    <3>6. CASE \E c \in Calls : CallAcquires(c)  BY <3>6, FlowCalls, CountCalls
    <3>7. CASE \/ PauseLocked \/ PauseGathers \/ PauseGathered \/ PauseReturns
               \/ UpdateReturns \/ ResumeLocked \/ ResumeReturns
      BY <3>7, FlowCalls, CountCalls
    <3>8. CASE UpdateLocked \/ UpdateResets  BY <3>8, FlowCalls, CountUpdates
    <3> QED  BY <2>2, <3>1, <3>2, <3>3, <3>4, <3>5, <3>6, <3>7, <3>8 DEF LoopStep
  <2>3. CASE Arrival
    <3>1. CASE \E s \in Samples : Generation(s)
      BY <3>1, FlowTask, CountTask, CountPuts DEF Generation
    <3>2. CASE \E c \in Calls : CallArrives(c)  BY <3>2, FlowCalls, CountCalls
    <3>3. CASE ServersCancel \/ ServersReset \/ ServersResume \/ ValidationArrives
      BY <3>3, FlowCalls, CountCalls
    <3>4. CASE QueueSizeAnswers  BY <3>4, FlowCalls, CountUpdates
    <3>5. CASE FinishSignalArrives  BY <3>5, CountPuts
    <3> QED  BY <2>3, <3>1, <3>2, <3>3, <3>4, <3>5 DEF Arrival
  <2>4. CASE MonitorTimer  BY <2>4, FlowAside, CountAside
  <2> QED  BY <2>1, <2>2, <2>3, <2>4
<1>2. CASE Train
  <2>1. TrainNext /\ UNCHANGED rolloutVars  BY <1>2 DEF Train
  <2>2. CASE Collect  BY <2>1, <2>2, CountCollects
  <2>3. CASE ~Collect
    <3>1. UNCHANGED <<queue, got>>
      BY <2>1, <2>3 DEF TrainNext, LogValidation, MQ!GetValidate, CollectWaits, MQ!GetSampleWaits, TrainStep,
                        SyncPauses, SyncVersions, MQ!UpdateParamVersion, SyncTransfers, SaveCheckpoint,
                        LastWait, DecideExtraSync, mqVars
    <3> QED  BY <2>1, <3>1, FlowTrain, CountTrain
  <2> QED  BY <2>2, <2>3
<1>3. CASE RunnerClears  BY <1>3, CountCollects DEF RunnerClears
<1>4. CASE UNCHANGED vars
  <2>1. UNCHANGED rolloutVars /\ UNCHANGED <<queue, got>>  BY <1>4 DEF vars, mqVars
  <2> QED  BY <2>1, FlowTrain, CountTrain
<1> QED  BY <1>1, <1>2, <1>3, <1>4 DEF Next, Terminated

\* What the trainer has not taken and the queue not dropped is held.
\* What is in one of the three queues.
LEMMA InQueues ==
  ASSUME FlowInv, NEW s \in Samples
  PROVE  /\ s \in RangeOf(pendingQueue \o cancelQueue \o queue) <=>
              In(pendingQueue, s) \/ In(cancelQueue, s) \/ In(queue, s)
         /\ s \in RangeOf(pendingQueue) <=> In(pendingQueue, s)
<1>1. \A q : s \in RangeOf(q) <=> In(q, s)  BY DEF RangeOf, In
<1>2. pendingQueue \in Seq(Nat) /\ cancelQueue \in Seq(Nat) /\ queue \in Seq(Nat)
  <2>1. Samples \subseteq Nat /\ 1 .. End \subseteq Nat  BY DEF Samples
  <2>2. cancelQueue \in Seq(Samples) /\ queue \in Seq(1 .. End)  BY DEF FlowInv, FlowType
  <2>3. \A S \in SUBSET Nat : \A q \in Seq(S) : q \in Seq(Nat)
    <3> SUFFICES ASSUME NEW S \in SUBSET Nat, NEW q \in Seq(S) PROVE q \in Seq(Nat)  OBVIOUS
    <3>1. \A i \in 1 .. Len(q) : q[i] \in Nat  BY ElementOfSeq
    <3>2. Len(q) \in Nat /\ q = [i \in 1 .. Len(q) |-> q[i]]  BY LenProperties
    <3> QED  BY <3>1, <3>2
  <2>4. pendingQueue \in Seq(Nat)  BY DEF FlowInv, FlowType
  <2> QED  BY <2>1, <2>2, <2>3, <2>4
<1>3. In(pendingQueue \o cancelQueue \o queue, s) <=>
        In(pendingQueue, s) \/ In(cancelQueue, s) \/ In(queue, s)
  <2> DEFINE v == pendingQueue \o cancelQueue
  <2>1. v \in Seq(Nat) /\ (In(v, s) <=> In(pendingQueue, s) \/ In(cancelQueue, s))
    BY <1>2, Joined
  <2> HIDE DEF v
  <2>2. In(v \o queue, s) <=> In(v, s) \/ In(queue, s)  BY <1>2, <2>1, Joined
  <2> QED  BY <2>1, <2>2 DEF v
<1> QED  BY <1>1, <1>3

LEMMA AheadHeld == FlowInv => Ahead \subseteq Held
<1> SUFFICES ASSUME FlowInv, NEW s \in Ahead PROVE s \in Held  OBVIOUS
<1>1. s \in Samples /\ s \in Fed /\ s \notin RangeOf(pendingQueue) /\ s \notin Given /\ s \notin Gone
  BY DEF Ahead, Taken, Fed
<1>2. \/ s \in RangeOf(pendingQueue \o cancelQueue \o queue)
      \/ s = hand \/ task[s] \notin {"none", "put"}
  BY <1>1 DEF Gone
<1>3. s = hand \/ task[s] \notin {"none", "put"} \/ In(cancelQueue, s) \/ In(queue, s)
  BY <1>1, <1>2, InQueues
<1> QED  BY <1>1, <1>3 DEF Held, Handed, Waiting, InTask, InCancel, InQueue

\* The rollout holds at most max_required_samples samples and one, whatever the
\* order of pauses, of the sums in update_param_version and of what arrives
\* between them (_should_pause_generation and _processor_worker).
THEOREM NoOverrunHolds == Spec => []NoOverrun
<1>1. ASSUME AsyncInv, CountInv PROVE NoOverrun
  <2>1. Ahead \in SUBSET Held /\ Held \in SUBSET Samples  BY <1>1, AheadHeld, HeldSets DEF AsyncInv
  <2>2. Cardinality(Ahead) <= Cardinality(Held) /\ Cardinality(Ahead) \in Nat
        /\ Cardinality(Held) \in Nat /\ MaxRequiredSamples \in Nat
    BY <2>1, Finite
  <2>3. Cardinality(Held) <= MaxRequiredSamples + 1  BY <1>1 DEF CountInv
  <2> QED  BY <2>2, <2>3 DEF NoOverrun
<1>2. AsyncInv /\ CountInv /\ [Next]_vars => AsyncInv' /\ CountInv'  BY NextAsync, NextCount
<1> QED  BY InitAsync, InitCount, <1>1, <1>2, PTL DEF Spec

-----------------------------------------------------------------------------
(* No sample twice.                                                        *)

LEMMA CountedOnce ==
  ASSUME NEW S, NEW q \in Seq(S), NEW c, Once(q, c)
  PROVE  Cardinality({i \in 1 .. Len(q) : q[i] = c}) = IF In(q, c) THEN 1 ELSE 0
<1>1. CASE In(q, c)
  <2>1. PICK i \in 1 .. Len(q) : q[i] = c  BY <1>1 DEF In
  <2>2. {j \in 1 .. Len(q) : q[j] = c} = {i}  BY <2>1 DEF Once
  <2> QED  BY <1>1, <2>2, FS_Singleton
<1>2. CASE ~In(q, c)
  <2>1. {j \in 1 .. Len(q) : q[j] = c} = {}  BY <1>2 DEF In
  <2> QED  BY <1>2, <2>1, FS_EmptySet
<1> QED  BY <1>1, <1>2

\* What the feed still holds follows what was taken, in order.
LEMMA StillFed ==
  ASSUME FlowInv, NEW s \in Samples
  PROVE  /\ Once(pendingQueue, s)
         /\ In(pendingQueue, s) => s > TakenTo /\ s \in Fed
         /\ s \notin Fed => s > TakenTo
<1>1. /\ pendingQueue \in Seq(Nat) /\ Len(pendingQueue) \in Nat /\ Len(pendingQueue) <= FedTo
      /\ \A i \in 1 .. Len(pendingQueue) : pendingQueue[i] = TakenTo + i
  BY LenProperties DEF FlowInv, FlowType
<1>2. globalSteps \in Nat /\ TotalSteps \in Nat /\ s \in Nat /\ s <= TotalSteps
  BY SharedAssumption DEF FlowInv, FlowType, Samples
<1>3. FedTo \in Int /\ TakenTo = FedTo - Len(pendingQueue)  BY <1>2 DEF FedTo, TakenTo, End
<1>4. s <= FedTo => s \in Fed  BY <1>2 DEF FedTo, Fed
<1>5. s > FedTo => s > TakenTo  BY <1>1, <1>2, <1>3
<1>6. s \notin Fed => s > FedTo  BY <1>2, <1>3, <1>4
<1>7. \A i \in 1 .. Len(pendingQueue) : pendingQueue[i] = s => s > TakenTo /\ s <= FedTo
  BY <1>1, <1>2, <1>3
<1>8. \A i, j \in 1 .. Len(pendingQueue) : pendingQueue[i] = s /\ pendingQueue[j] = s => i = j
  BY <1>1, <1>2, <1>3
<1> QED  BY <1>4, <1>5, <1>6, <1>7, <1>8 DEF In, Once

\* Whatever is interrupted, cancelled, put back and dropped, a sample is in one
\* place at a time: in pending_queue, the processor's hand, a task, cancel_queue,
\* the message queue or with the trainer.
THEOREM NoneDoubledHolds == Spec => []NoneDoubled
<1>1. ASSUME AsyncInv PROVE NoneDoubled
  <2> SUFFICES ASSUME NEW s \in Samples PROVE Occurrences(s) <= IF s \in Fed THEN 1 ELSE 0
    BY DEF NoneDoubled
  <2>0. FlowInv /\ FlowType /\ PlacedOnce(s)  BY <1>1 DEF AsyncInv, FlowInv
  <2> DEFINE Is(P) == IF P THEN 1 ELSE 0
  <2>1. /\ Once(pendingQueue, s) /\ (s \notin Fed => s > TakenTo)
        /\ In(pendingQueue, s) => s > TakenTo /\ s \in Fed
    BY <2>0, StillFed
  <2>2. Cardinality({i \in 1 .. Len(pendingQueue) : pendingQueue[i] = s}) = Is(In(pendingQueue, s))
    BY <2>0, <2>1, CountedOnce DEF FlowType
  <2>3. Cardinality({i \in 1 .. Len(cancelQueue) : cancelQueue[i] = s}) = Is(In(cancelQueue, s))
    BY <2>0, CountedOnce DEF FlowType, PlacedOnce
  <2>4. Cardinality({i \in 1 .. Len(queue) : queue[i] = s}) = Is(In(queue, s))
    BY <2>0, CountedOnce DEF FlowType, PlacedOnce
  <2>5. s \in Given <=> s \in Trained  BY DEF Given, Trained
  <2>6. Occurrences(s) = Is(In(pendingQueue, s)) + Is(In(cancelQueue, s)) + Is(In(queue, s))
                           + Is(hand = s) + Is(task[s] \notin {"none", "put"}) + Is(s \in Trained)
    BY <2>2, <2>3, <2>4, <2>5 DEF Occurrences
  <2> QED  BY <2>0, <2>1, <2>6 DEF PlacedOnce
<1>2. AsyncInv /\ [Next]_vars => AsyncInv'  BY NextAsync
<1> QED  BY InitAsync, <1>1, <1>2, PTL DEF Spec
-----------------------------------------------------------------------------
(* Which steps write a variable, and which move a coroutine.               *)

Puts     == FinishSignalArrives \/ \E s \in Samples : PutArrives(s)
Collects == Collect /\ UNCHANGED rolloutVars

\* What a step leaves of the samples, the versions and the flags.
Written ==
  /\ UNCHANGED trainVars \/ (TrainNext /\ UNCHANGED rolloutVars)
  /\ got' = got \/ Collects
  /\ queue' = queue \/ Collects \/ RunnerClears \/ Puts
  /\ droppedSamples' = droppedSamples \/ Puts
  /\ valQueue' = valQueue \/ LogValidation \/ ValidationArrives
  /\ mqVersion' = mqVersion \/ SyncVersions
  /\ \/ rpc' = rpc
     \/ SyncPauses \/ SyncTransfers \/ PauseReturns \/ UpdateReturns \/ ResumeReturns
     \/ \E c \in Calls : CallArrives(c)
  /\ stalenessSamples' = stalenessSamples \/ ProcTakes \/ UpdateResets
  /\ snapshot' = snapshot \/ UpdateLocked \/ QueueSizeAnswers \/ UpdateResets
  /\ rolloutVersion' = rolloutVersion \/ UpdateLocked
  /\ sampleVersion' = sampleVersion \/ \E s \in Samples : TaskCompletes(s)
  /\ \/ task' = task
     \/ ProcSubmits \/ ServersCancel
     \/ \E s \in Samples : TaskStarts(s) \/ TaskCompletes(s) \/ TaskEnds(s) \/ Generation(s)
  /\ cancelQueue' = cancelQueue \/ ProcTakesCancelled \/ \E s \in Samples : TaskEnds(s)
  /\ hand' = hand \/ ProcTakesCancelled \/ ProcTakes \/ ProcSubmits
  /\ pendingQueue' = pendingQueue \/ FeedPut \/ ProcTakes
  /\ globalSteps' = globalSteps \/ FeedPut
  /\ UNCHANGED <<finished, failed>> \/ ProcReaps \/ PauseGathered \/ \E s \in Samples : TaskEnds(s)
  /\ doneBound' = doneBound \/ ProcReaps
  /\ waitFor' = waitFor \/ ProcSetsPaused \/ ProcTakesCancelled \/ ProcTakes
  /\ paused' = paused \/ ProcSetsPaused \/ PauseLocked \/ ResumeReturns \/ MonitorUnpauses
  /\ monitorLoopTrigger' = monitorLoopTrigger \/ PauseReturns \/ ResumeReturns
  /\ rolloutRunning' = rolloutRunning \/ MainStops
  /\ serversPaused' = serversPaused \/ ServersCancel \/ ServersResume

PauseSteps  == PauseLocked \/ ServersCancel \/ PauseGathers \/ PauseGathered \/ ServersReset \/ PauseReturns
UpdateSteps == UpdateLocked \/ QueueSizeAnswers \/ UpdateResets \/ ValidationArrives \/ UpdateReturns
ResumeSteps == ResumeLocked \/ ServersResume \/ ResumeReturns

\* What a step leaves of the coroutines' places.
Moved ==
  /\ pc' = [n \in Names |-> pc'[n]]
  /\ \/ pc'["main"] = pc["main"]
     \/ MainStart \/ MainWoken \/ MainAcquires \/ MainStops \/ FinishSignalArrives \/ FeedPut
     \/ ProcLoopEnds \/ ProcSkipsWait \/ ProcReaps
  /\ pc'["feed"] = pc["feed"] \/ MainStart \/ FeedPut \/ FeedBlocks \/ ProcTakes
  /\ \/ pc'["proc"] = pc["proc"]
     \/ MainStart \/ FeedPut \/ Processor \/ ResumeReturns \/ MonitorUnpauses
     \/ \E s \in Samples : TaskEnds(s)
  /\ pc'["monitor"] = pc["monitor"] \/ Monitor \/ MonitorTimer
  /\ \/ pc'["pause"] = pc["pause"]
     \/ PauseSteps \/ CallArrives("pause") \/ CallAcquires("pause")
     \/ \E s \in Samples : TaskEnds(s)
  /\ \/ pc'["update"] = pc["update"]
     \/ UpdateSteps \/ CallArrives("update") \/ CallAcquires("update")
  /\ \/ pc'["resume"] = pc["resume"]
     \/ ResumeSteps \/ CallArrives("resume") \/ CallAcquires("resume")

\* All variables of the rollout but those that say where tasks are run.
quietVars == <<flowVars, modeVars, restVars, rpc, mqVars>>

LEMMA StreamingWrites ==
  ASSUME SyncType, UNCHANGED trainVars,
         MainStart \/ MainWoken \/ MainAcquires \/ MainStops \/ FeedPut \/ FeedBlocks \/ FinishSignalArrives
  PROVE  Written /\ Moved
<1> USE DEF flowVars, modeVars, restVars, mqVars, SyncType, Names
<1>1. CASE MainStart
  <2>1. UNCHANGED quietVars /\ pc' = [n \in Names |-> pc'[n]]
        /\ \A n \in Names \ {"main", "feed", "proc"} : pc'[n] = pc[n]
    BY <1>1 DEF MainStart, quietVars
  <2> QED  BY <1>1, <2>1 DEF Written, Moved, quietVars
<1>2. CASE MainWoken \/ MainAcquires \/ MainStops
  <2>1. UNCHANGED <<flowVars, paused, monitorLoopTrigger, restVars, rpc, mqVars>> /\ pc' = [n \in Names |-> pc'[n]]
        /\ \A n \in Names \ {"main"} : pc'[n] = pc[n]
    BY <1>2 DEF MainWoken, MainAcquires, MainStops, Goto
  <2>2. rolloutRunning' = rolloutRunning \/ MainStops  BY <1>2 DEF MainWoken, MainAcquires
  <2> QED  BY <1>2, <2>1, <2>2 DEF Written, Moved
<1>3. CASE FeedPut
  <2>1. UNCHANGED <<cancelQueue, hand, task, finished, failed, sampleVersion, modeVars, rpc, mqVars, stalenessSamples,
                    rolloutVersion, doneBound, waitFor, serversPaused, snapshot>>
        /\ pc' = [n \in Names |-> pc'[n]]
        /\ \A n \in Names \ {"main", "feed", "proc"} : pc'[n] = pc[n]
    BY <1>3 DEF FeedPut
  <2> QED  BY <1>3, <2>1 DEF Written, Moved
<1>4. CASE FeedBlocks
  <2>1. UNCHANGED quietVars /\ pc' = [n \in Names |-> pc'[n]]
        /\ \A n \in Names \ {"feed"} : pc'[n] = pc[n]
    BY <1>4 DEF FeedBlocks, quietVars, Goto
  <2> QED  BY <1>4, <2>1 DEF Written, Moved, quietVars
<1>5. CASE FinishSignalArrives
  <2>1. UNCHANGED <<flowVars, modeVars, restVars, rpc, valQueue, got, mqVersion>>
        /\ pc' = [n \in Names |-> pc'[n]]
        /\ \A n \in Names \ {"main"} : pc'[n] = pc[n]
    BY <1>5 DEF FinishSignalArrives, Goto, MQ!PutSample
  <2> QED  BY <1>5, <2>1 DEF Written, Moved, Puts
<1> QED  BY <1>1, <1>2, <1>3, <1>4, <1>5

LEMMA ProcessorWrites ==
  ASSUME SyncType, UNCHANGED trainVars, Processor
  PROVE  Written /\ Moved
<1> USE DEF flowVars, modeVars, restVars, mqVars, SyncType, Names
<1>1. /\ pc' = [n \in Names |-> pc'[n]] /\ UNCHANGED <<rpc, mqVars>>
      /\ \A n \in Names \ {"main", "feed", "proc"} : pc'[n] = pc[n]
      /\ UNCHANGED <<globalSteps, sampleVersion, rolloutRunning, monitorLoopTrigger, rolloutVersion, snapshot,
                     serversPaused>>
  BY DEF Processor, ProcPauses, ProcSetsPaused, ProcTakesCancelled, ProcTakes, ProcAwaitsSample, ProcLoopEnds,
         ProcLoopAcquires, ProcWaits, ProcSkipsWait, ProcReaps, ProcIdles, ProcHoldsBack, ProcSubmits,
         ProcNotified, Goto, EndWorker
<1>2. CASE \/ ProcPauses \/ ProcAwaitsSample \/ ProcLoopAcquires \/ ProcWaits \/ ProcIdles \/ ProcHoldsBack
           \/ ProcNotified
  <2>1. UNCHANGED quietVars /\ pc'["main"] = pc["main"] /\ pc'["feed"] = pc["feed"]
    BY <1>2 DEF quietVars, ProcPauses, ProcAwaitsSample, ProcLoopAcquires, ProcWaits, ProcIdles, ProcHoldsBack,
                ProcNotified, Goto
  <2> QED  BY <1>1, <2>1 DEF Written, Moved, quietVars
<1>3. CASE ProcLoopEnds \/ ProcSkipsWait
  <2>1. UNCHANGED quietVars /\ pc'["feed"] = pc["feed"]
    BY <1>3 DEF quietVars, ProcLoopEnds, ProcSkipsWait, Goto, EndWorker
  <2> QED  BY <1>1, <1>3, <2>1 DEF Written, Moved, quietVars
<1>4. CASE ProcReaps
  <2>1. UNCHANGED <<pendingQueue, cancelQueue, hand, task, modeVars, stalenessSamples, waitFor>>
        /\ pc'["feed"] = pc["feed"]
    BY <1>4 DEF ProcReaps, Goto, EndWorker
  <2> QED  BY <1>1, <1>4, <2>1 DEF Written, Moved
<1>5. CASE ProcSetsPaused
  <2>1. UNCHANGED <<flowVars, stalenessSamples, doneBound>> /\ pc'["feed"] = pc["feed"] /\ pc'["main"] = pc["main"]
    BY <1>5 DEF ProcSetsPaused, Goto
  <2> QED  BY <1>1, <1>5, <2>1 DEF Written, Moved
<1>6. CASE ProcTakesCancelled
  <2>1. UNCHANGED <<pendingQueue, task, finished, failed, modeVars, stalenessSamples, doneBound>>
        /\ pc'["feed"] = pc["feed"] /\ pc'["main"] = pc["main"]
    BY <1>6 DEF ProcTakesCancelled, Goto
  <2> QED  BY <1>1, <1>6, <2>1 DEF Written, Moved
<1>7. CASE ProcTakes
  <2>1. UNCHANGED <<cancelQueue, task, finished, failed, modeVars, doneBound>> /\ pc'["main"] = pc["main"]
    BY <1>7 DEF ProcTakes
  <2> QED  BY <1>1, <1>7, <2>1 DEF Written, Moved
<1>8. CASE ProcSubmits
  <2>1. UNCHANGED <<pendingQueue, cancelQueue, finished, failed, modeVars, restVars>>
        /\ pc'["feed"] = pc["feed"] /\ pc'["main"] = pc["main"]
    BY <1>8 DEF ProcSubmits, Goto
  <2> QED  BY <1>1, <1>8, <2>1 DEF Written, Moved
<1> QED  BY <1>2, <1>3, <1>4, <1>5, <1>6, <1>7, <1>8 DEF Processor

LEMMA MonitorWrites ==
  ASSUME SyncType, UNCHANGED trainVars, Monitor \/ MonitorTimer
  PROVE  Written /\ Moved
<1> USE DEF flowVars, modeVars, restVars, mqVars, SyncType, Names
<1>1. CASE MonitorUnpauses
  <2>1. UNCHANGED <<flowVars, rolloutRunning, monitorLoopTrigger, restVars, rpc, mqVars>>
        /\ pc' = [n \in Names |-> pc'[n]]
        /\ \A n \in Names \ {"proc", "monitor"} : pc'[n] = pc[n]
    BY <1>1 DEF MonitorUnpauses
  <2>2. Monitor  BY <1>1 DEF Monitor
  <2> QED  BY <1>1, <2>1, <2>2 DEF Written, Moved
<1>2. CASE ~MonitorUnpauses
  <2>1. UNCHANGED quietVars /\ pc' = [n \in Names |-> pc'[n]] /\ \A n \in Names \ {"monitor"} : pc'[n] = pc[n]
    BY <1>2 DEF Monitor, MonitorAcquires, MonitorChecks, MonitorDecides, MonitorTimer, quietVars, Goto
  <2> QED  BY <2>1 DEF Written, Moved, quietVars
<1> QED  BY <1>1, <1>2

LEMMA TaskWrites ==
  ASSUME SyncType, UNCHANGED trainVars, NEW s \in Samples,
         TaskStarts(s) \/ TaskCompletes(s) \/ TaskEnds(s) \/ Generation(s)
  PROVE  Written /\ Moved
<1> USE DEF flowVars, modeVars, restVars, mqVars, SyncType, Names
<1>1. CASE TaskEnds(s)
  <2>1. UNCHANGED <<pendingQueue, hand, sampleVersion, modeVars, restVars, rpc, mqVars>>
        /\ pc' = [n \in Names |-> pc'[n]]
        /\ \A n \in Names \ {"proc", "pause"} : pc'[n] = pc[n]
    BY <1>1 DEF TaskEnds, PcAfterTaskEnd
  <2> QED  BY <1>1, <2>1 DEF Written, Moved
<1>2. CASE TaskCompletes(s)
  <2>1. UNCHANGED <<pc, pendingQueue, cancelQueue, hand, finished, failed, modeVars, restVars, rpc, mqVars>>
    BY <1>2 DEF TaskCompletes
  <2> QED  BY <1>2, <2>1 DEF Written, Moved
<1>3. CASE TaskStarts(s) \/ ServerAccepts(s) \/ GenerationEnds(s)
  <2>1. UNCHANGED <<pc, pendingQueue, cancelQueue, hand, finished, failed, sampleVersion, modeVars, restVars,
                    rpc, mqVars>>
    BY <1>3 DEF TaskStarts, ServerAccepts, GenerationEnds
  <2> QED  BY <1>3, <2>1 DEF Written, Moved, Generation
<1>4. CASE PutArrives(s)
  <2>1. UNCHANGED <<pc, pendingQueue, cancelQueue, hand, finished, failed, sampleVersion, modeVars, restVars,
                    rpc, mqVersion, valQueue, got>>
    BY <1>4 DEF PutArrives, MQ!PutSample
  <2> QED  BY <1>4, <2>1 DEF Written, Moved, Puts, Generation
<1> QED  BY <1>1, <1>2, <1>3, <1>4 DEF Generation

LEMMA CallWrites ==
  ASSUME SyncType, UNCHANGED trainVars, NEW c \in Calls, CallArrives(c) \/ CallAcquires(c)
  PROVE  Written /\ Moved
<1> USE DEF flowVars, modeVars, restVars, mqVars, SyncType, Names, Calls
<1>1. UNCHANGED <<flowVars, modeVars, restVars, mqVars>> /\ pc' = [n \in Names |-> pc'[n]]
      /\ \A n \in Names \ {c} : pc'[n] = pc[n]
  BY DEF CallArrives, CallAcquires, Goto
<1>2. CallArrives(c) \/ rpc' = rpc  BY DEF CallAcquires
<1>3. c = "pause" \/ c = "update" \/ c = "resume"  OBVIOUS
<1> QED  BY <1>1, <1>2, <1>3 DEF Written, Moved

LEMMA PauseWrites ==
  ASSUME SyncType, UNCHANGED trainVars, PauseSteps
  PROVE  Written /\ Moved
<1> USE DEF flowVars, modeVars, restVars, mqVars, SyncType, Names
<1>1. UNCHANGED <<pendingQueue, cancelQueue, hand, sampleVersion, rolloutRunning, mqVars, stalenessSamples,
                  rolloutVersion, globalSteps, doneBound, waitFor, snapshot>>
      /\ pc' = [n \in Names |-> pc'[n]] /\ \A n \in Names \ {"pause"} : pc'[n] = pc[n]
  BY DEF PauseSteps, PauseLocked, ServersCancel, PauseGathers, PauseGathered, ServersReset, PauseReturns, Goto
<1>2. CASE PauseLocked
  <2>1. UNCHANGED <<flowVars, monitorLoopTrigger, restVars, rpc>>  BY <1>2 DEF PauseLocked
  <2> QED  BY <1>1, <1>2, <2>1 DEF Written, Moved
<1>3. CASE ServersCancel
  <2>1. UNCHANGED <<finished, failed, modeVars, rpc>>  BY <1>3 DEF ServersCancel
  <2> QED  BY <1>1, <1>3, <2>1 DEF Written, Moved
<1>4. CASE PauseGathers \/ ServersReset
  <2>1. UNCHANGED quietVars  BY <1>4 DEF PauseGathers, ServersReset, quietVars
  <2> QED  BY <1>1, <1>4, <2>1 DEF Written, Moved, quietVars
<1>5. CASE PauseGathered
  <2>1. UNCHANGED <<task, modeVars, restVars, rpc>>  BY <1>5 DEF PauseGathered
  <2> QED  BY <1>1, <1>5, <2>1 DEF Written, Moved
<1>6. CASE PauseReturns
  <2>1. UNCHANGED <<flowVars, paused, restVars>>  BY <1>6 DEF PauseReturns
  <2> QED  BY <1>1, <1>6, <2>1 DEF Written, Moved
<1> QED  BY <1>2, <1>3, <1>4, <1>5, <1>6 DEF PauseSteps

LEMMA UpdateWrites ==
  ASSUME SyncType, UNCHANGED trainVars, UpdateSteps
  PROVE  Written /\ Moved
<1> USE DEF flowVars, modeVars, restVars, mqVars, SyncType, Names
<1>1. UNCHANGED <<flowVars, modeVars, globalSteps, doneBound, waitFor, serversPaused>>
      /\ UNCHANGED <<queue, got, droppedSamples, mqVersion>>
      /\ pc' = [n \in Names |-> pc'[n]] /\ \A n \in Names \ {"update"} : pc'[n] = pc[n]
  BY DEF UpdateSteps, UpdateLocked, QueueSizeAnswers, UpdateResets, ValidationArrives, UpdateReturns, Goto,
         MQ!PutValidate, MQ!statistics
<1>2. CASE UpdateLocked \/ QueueSizeAnswers \/ UpdateResets
  <2>1. UNCHANGED <<rpc, mqVars>>  BY <1>2 DEF UpdateLocked, QueueSizeAnswers, UpdateResets
  <2>2. UpdateLocked \/ rolloutVersion' = rolloutVersion  BY <1>2 DEF QueueSizeAnswers, UpdateResets
  <2>3. UpdateResets \/ stalenessSamples' = stalenessSamples  BY <1>2 DEF UpdateLocked, QueueSizeAnswers
  <2> QED  BY <1>1, <1>2, <2>1, <2>2, <2>3 DEF Written, Moved
<1>3. CASE ValidationArrives
  <2>1. UNCHANGED <<restVars, rpc>>  BY <1>3 DEF ValidationArrives
  <2> QED  BY <1>1, <1>3, <2>1 DEF Written, Moved
<1>4. CASE UpdateReturns
  <2>1. UNCHANGED <<restVars, mqVars>>  BY <1>4 DEF UpdateReturns
  <2> QED  BY <1>1, <1>4, <2>1 DEF Written, Moved
<1> QED  BY <1>2, <1>3, <1>4 DEF UpdateSteps

LEMMA ResumeWrites ==
  ASSUME SyncType, UNCHANGED trainVars, ResumeSteps
  PROVE  Written /\ Moved
<1> USE DEF flowVars, modeVars, restVars, mqVars, SyncType, Names
<1>1. UNCHANGED <<flowVars, rolloutRunning, mqVars, stalenessSamples, rolloutVersion, globalSteps, doneBound,
                  waitFor, snapshot>>
      /\ pc' = [n \in Names |-> pc'[n]] /\ \A n \in Names \ {"proc", "resume"} : pc'[n] = pc[n]
  BY DEF ResumeSteps, ResumeLocked, ServersResume, ResumeReturns, Goto
<1>2. CASE ResumeReturns
  <2>1. UNCHANGED restVars  BY <1>2 DEF ResumeReturns
  <2> QED  BY <1>1, <1>2, <2>1 DEF Written, Moved
<1>3. CASE ~ResumeReturns
  <2>1. UNCHANGED <<modeVars, rpc>> /\ pc'["proc"] = pc["proc"]
    BY <1>3 DEF ResumeSteps, ResumeLocked, ServersResume, Goto
  <2>2. ServersResume \/ serversPaused' = serversPaused  BY <1>3 DEF ResumeSteps, ResumeLocked
  <2> QED  BY <1>1, <2>1, <2>2 DEF Written, Moved
<1> QED  BY <1>2, <1>3

LEMMA TrainWrites ==
  ASSUME SyncType, TrainNext, UNCHANGED rolloutVars
  PROVE  Written /\ Moved
<1> USE DEF rolloutVars, flowVars, modeVars, restVars, SyncType, Names
<1>1. UNCHANGED <<pc, task, cancelQueue, hand, pendingQueue, globalSteps, finished, failed, sampleVersion,
                  modeVars, restVars>>
  OBVIOUS
<1>2. Collect \/ UNCHANGED <<got, queue>>
  BY DEF TrainNext, LogValidation, MQ!GetValidate, CollectWaits, MQ!GetSampleWaits, TrainStep,
         SyncPauses, SyncVersions, MQ!UpdateParamVersion, SyncTransfers, SaveCheckpoint,
         LastWait, DecideExtraSync, mqVars
<1>3. droppedSamples' = droppedSamples /\ (LogValidation \/ valQueue' = valQueue)
  BY DEF TrainNext, LogValidation, MQ!GetValidate, CollectWaits, MQ!GetSampleWaits, Collect, MQ!GetSample, TrainStep,
         SyncPauses, SyncVersions, MQ!UpdateParamVersion, SyncTransfers, SaveCheckpoint,
         LastWait, DecideExtraSync, mqVars, MQ!statistics
<1>4. (SyncVersions \/ mqVersion' = mqVersion) /\ (SyncPauses \/ SyncTransfers \/ rpc' = rpc)
  BY DEF TrainNext, LogValidation, MQ!GetValidate, CollectWaits, MQ!GetSampleWaits, Collect, MQ!GetSample, TrainStep,
         SyncVersions, SaveCheckpoint, LastWait, DecideExtraSync, mqVars, MQ!statistics, SyncPauses, SyncTransfers
<1> QED  BY <1>1, <1>2, <1>3, <1>4 DEF Written, Moved, Collects

\* Every variable has its writers.
LEMMA Frames ==
  ASSUME SyncType, [Next]_vars
  PROVE  Written /\ Moved
<1>1. CASE Rollout
  <2>1. UNCHANGED trainVars /\ (LoopStep \/ Arrival \/ MonitorTimer)  BY <1>1 DEF Rollout, RolloutNext
  <2>2. CASE LoopStep
    <3>1. \/ MainStart \/ MainWoken \/ MainAcquires \/ MainStops \/ FeedPut \/ FeedBlocks
          \/ Processor \/ Monitor
          \/ \E s \in Samples : TaskStarts(s) \/ TaskCompletes(s) \/ TaskEnds(s)
          \/ \E c \in Calls : CallAcquires(c)
          \/ PauseSteps \/ UpdateSteps \/ ResumeSteps
      BY <2>2 DEF LoopStep, PauseSteps, UpdateSteps, ResumeSteps
    <3> QED
      BY <2>1, <3>1, StreamingWrites, ProcessorWrites, MonitorWrites, TaskWrites, CallWrites, PauseWrites,
         UpdateWrites, ResumeWrites
  <2>3. CASE Arrival
    <3>1. \/ FinishSignalArrives \/ \E s \in Samples : Generation(s)
          \/ \E c \in Calls : CallArrives(c)
          \/ PauseSteps \/ UpdateSteps \/ ResumeSteps
      BY <2>3 DEF Arrival, PauseSteps, UpdateSteps, ResumeSteps
    <3> QED
      BY <2>1, <3>1, StreamingWrites, TaskWrites, CallWrites, PauseWrites, UpdateWrites, ResumeWrites
  <2> QED  BY <2>1, <2>2, <2>3, MonitorWrites
<1>2. CASE Train  BY <1>2, TrainWrites DEF Train
<1>3. CASE RunnerClears
  <2>1. UNCHANGED <<rolloutVars, trainVars, rpc, got, droppedSamples, valQueue, mqVersion>>
    BY <1>3 DEF RunnerClears, MQ!ClearQueue, mqVars, MQ!statistics
  <2> QED  BY <1>3, <2>1 DEF Written, Moved, SyncType, Names, rolloutVars, flowVars, modeVars, restVars
<1>4. CASE UNCHANGED vars
  BY <1>4 DEF vars, Written, Moved, SyncType, Names, rolloutVars, flowVars, modeVars, restVars, mqVars
<1> QED  BY <1>1, <1>2, <1>3, <1>4 DEF Next, Terminated
-----------------------------------------------------------------------------
(* What the trainer was given, and the versions it made of it.             *)

LEMMA Sizes ==
  /\ SamplesPerSync = RequiredSamples * TriggerSteps /\ SamplesPerSync \in Nat \ {0}
  /\ RequiredSamples \in Nat \ {0} /\ TriggerSteps \in Nat \ {0} /\ TotalSteps \in Nat \ {0}
  /\ MaxRequiredSamples \in Nat \ {0} /\ End = TotalSteps + 1 /\ End \notin Samples /\ NoSample \notin Samples
<1>1. /\ RequiredSamples \in Nat \ {0} /\ TriggerSteps \in Nat \ {0} /\ TotalSteps \in Nat \ {0}
      /\ SamplesPerSync = RequiredSamples * TriggerSteps
  BY SharedAssumption DEF SamplesPerSync
<1>2. SamplesPerSync \in Nat \ {0}  BY <1>1
<1>3. End = TotalSteps + 1 /\ End \notin Samples /\ NoSample \notin Samples
  BY <1>1 DEF End, NoSample, Samples
<1> QED  BY <1>1, <1>2, <1>3, Finite

LEMMA InitGiven == Init => GivenInv
<1> SUFFICES ASSUME Init PROVE GivenInv  OBVIOUS
<1>1. /\ tpc = "firstLog" /\ afterSync = "log" /\ batch = {} /\ localTriggerStep = 1 /\ trainerVersion = 0
      /\ got["trainer"] = {}
  BY DEF Init, TrainInit, SharedInit
<1>2. Given = {} /\ Cardinality({}) = 0  BY <1>1, FS_EmptySet DEF Given
<1> QED  BY <1>1, <1>2, Sizes DEF GivenInv, Ended, Trained

\* The oldest sample of the queue is given to the trainer.
LEMMA Collected ==
  ASSUME FlowInv, Collect
  PROVE  /\ queue /= <<>> /\ queue' = Tail(queue) /\ Head(queue) \in 1 .. End
         /\ Trained' = Trained \union {Head(queue)}
         /\ Head(queue) = End => Given' = Given
         /\ Head(queue) /= End =>
              /\ Head(queue) \in Samples \ Given /\ Given' = Given \union {Head(queue)}
              /\ Cardinality(Given') = Cardinality(Given) + 1
<1>1. queue \in Seq(1 .. End) /\ got = [c \in {"trainer"} |-> got[c]]  BY DEF FlowInv, FlowType
<1>2. /\ queue /= <<>> /\ queue' = Tail(queue)
      /\ got' = [got EXCEPT !["trainer"] = @ \union {Head(queue)}]
  BY DEF Collect, MQ!GetSample
<1>3. Head(queue) \in 1 .. End /\ In(queue, Head(queue))  BY <1>1, <1>2, HeadLeaves
<1>4. Trained' = Trained \union {Head(queue)}  BY <1>1, <1>2 DEF Trained
<1>5. Given = Trained \intersect Samples /\ Given' = Trained' \intersect Samples  BY DEF Given, Trained
<1>6. CASE Head(queue) = End  BY <1>2, <1>3, <1>4, <1>5, <1>6, Sizes
<1>7. CASE Head(queue) /= End
  <2>1. Head(queue) \in Samples  BY <1>3, <1>7, Sizes DEF Samples
  <2>2. Head(queue) \notin Trained  BY <1>3, <2>1 DEF FlowInv, PlacedOnce
  <2>3. IsFiniteSet(Given) /\ Head(queue) \notin Given  BY <1>5, <2>2, Finite
  <2>4. Given' = Given \union {Head(queue)}  BY <1>4, <1>5, <2>1
  <2>5. Cardinality(Given') = Cardinality(Given) + 1  BY <2>3, <2>4, FS_AddElement
  <2> QED  BY <1>2, <1>3, <1>4, <1>7, <2>1, <2>3, <2>4, <2>5
<1> QED  BY <1>6, <1>7

LEMMA NextGiven ==
  ASSUME AsyncInv, GivenInv, [Next]_vars
  PROVE  GivenInv'
<1>0. Written /\ FlowInv /\ SyncType  BY Frames DEF AsyncInv, SyncInv
<1>1. Cardinality(Given) \in Nat /\ Cardinality(batch) \in Nat /\ IsFiniteSet(batch)
      /\ trainerVersion \in Nat
  <2>1. Given \in SUBSET Samples /\ batch \in SUBSET Samples  BY DEF GivenInv, Given
  <2> QED  BY <1>0, <2>1, Finite DEF SyncType
<1>2. Cardinality({}) = 0  BY FS_EmptySet
<1>3. CASE Collects
  <2> DEFINE s == Head(queue)
  <2>1. /\ tpc = "collect" /\ UNCHANGED <<afterSync, localTriggerStep, trainerVersion>>
        /\ \/ s = End /\ batch' = {} /\ tpc' = "lastWait"
           \/ /\ s /= End /\ batch' = batch \union {s}
              /\ tpc' = IF Cardinality(batch) + 1 = RequiredSamples THEN "train" ELSE "collect"
    BY <1>3 DEF Collects, Collect, stepVars
  <2>2. /\ Trained' = Trained \union {s}
        /\ s = End => Given' = Given
        /\ s /= End => /\ s \in Samples \ Given /\ Given' = Given \union {s}
                       /\ Cardinality(Given') = Cardinality(Given) + 1
    BY <1>0, <1>3, Collected DEF Collects
  <2>3. s /= End => Cardinality(batch') = Cardinality(batch) + 1
    <3>1. s /= End => s \notin batch  BY <2>2 DEF GivenInv
    <3> HIDE DEF s
    <3> QED  BY <1>1, <2>1, <3>1, FS_AddElement
  <2> HIDE DEF s
  <2>4. CASE s = End
    <3>1. ~Ended /\ Ended' /\ batch' = {} /\ tpc' = "lastWait"  BY <2>1, <2>4 DEF Ended
    <3>2. Cardinality(Given) = SamplesPerSync * trainerVersion
                                 + RequiredSamples * (localTriggerStep - 1) + Cardinality(batch)
          /\ RequiredSamples * (localTriggerStep - 1) >= 0
      BY <3>1, Sizes DEF GivenInv
    <3>3. SamplesPerSync * trainerVersion <= Cardinality(Given')
          /\ SamplesPerSync * (trainerVersion - 1) <= Cardinality(Given')
      <4>1. SamplesPerSync * trainerVersion \in Nat /\ RequiredSamples * (localTriggerStep - 1) \in Nat
            /\ SamplesPerSync * (trainerVersion - 1) <= SamplesPerSync * trainerVersion
            /\ SamplesPerSync * (trainerVersion - 1) \in Int
        BY <1>1, <3>2, Sizes DEF GivenInv
      <4> HIDE DEF GivenInv
      <4> QED  BY <1>1, <2>2, <2>4, <3>2, <4>1
    <3> QED  BY <2>1, <2>2, <2>4, <3>1, <3>3 DEF GivenInv
  <2>5. CASE s /= End
    <3>1. ~Ended /\ ~Ended'  BY <2>1, <2>5 DEF Ended
    <3>2. End \notin Trained' /\ batch' \subseteq Given'  BY <2>1, <2>2, <2>5, <3>1 DEF GivenInv
    <3>3. Cardinality(batch') = Cardinality(batch) + 1 /\ Cardinality(batch) < RequiredSamples
      BY <2>1, <2>3, <2>5 DEF GivenInv
    <3> QED  BY <1>1, <2>1, <2>2, <2>5, <3>1, <3>2, <3>3, Sizes DEF GivenInv
  <2> QED  BY <2>4, <2>5
<1>4. CASE ~Collects
  <2>1. Trained' = Trained /\ Given' = Given  BY <1>0, <1>4 DEF Written, Trained, Given
  <2>2. CASE UNCHANGED trainVars  BY <2>1, <2>2 DEF trainVars, stepVars, GivenInv, Ended
  <2>3. CASE TrainNext /\ UNCHANGED rolloutVars
    <3> USE <2>1 DEF GivenInv, Ended, stepVars, trainVars
    <3>1. CASE TrainStep
      <4>1. /\ tpc = "train" /\ batch' = {} /\ ~Ended
            /\ Cardinality(Given) = SamplesPerSync * trainerVersion
                                 + RequiredSamples * (localTriggerStep - 1) + RequiredSamples
        BY <3>1 DEF TrainStep
      <4>2. CASE localTriggerStep < TriggerSteps
        <5>1. tpc' = "log" /\ localTriggerStep' = localTriggerStep + 1
              /\ UNCHANGED <<trainerVersion, afterSync>> /\ ~Ended'
          BY <3>1, <4>2, Sizes DEF TrainStep, NewVersion
        <5>2. RequiredSamples * (localTriggerStep' - 1)
                = RequiredSamples * (localTriggerStep - 1) + RequiredSamples
          BY <5>1, Sizes
        <5>3. Cardinality(Given') = SamplesPerSync * trainerVersion'
                                 + RequiredSamples * (localTriggerStep' - 1) + Cardinality(batch')
          <6> HIDE <2>1 DEF GivenInv
          <6>1. SamplesPerSync * trainerVersion \in Int /\ RequiredSamples * (localTriggerStep - 1) \in Int
            BY <1>1, Sizes DEF GivenInv
          <6> QED  BY <1>2, <2>1, <4>1, <5>1, <5>2, <6>1, Sizes
        <5> QED  BY <4>1, <4>2, <5>1, <5>3, Sizes
      <4>3. CASE localTriggerStep >= TriggerSteps
        <5>1. /\ tpc' = "waitValid" /\ localTriggerStep' = 1 /\ trainerVersion' = trainerVersion + 1
              /\ afterSync' = "log" /\ ~Ended' /\ localTriggerStep = TriggerSteps
          BY <3>1, <4>3, Sizes DEF TrainStep, NewVersion
        <5>2. SamplesPerSync * (trainerVersion + 1) = SamplesPerSync * trainerVersion + SamplesPerSync
              /\ RequiredSamples * (TriggerSteps - 1) + RequiredSamples = SamplesPerSync
              /\ RequiredSamples * 0 = 0
          BY <1>1, Sizes
        <5>3. Cardinality(Given') = SamplesPerSync * trainerVersion'
                                 + RequiredSamples * (localTriggerStep' - 1) + Cardinality(batch')
          <6> HIDE <2>1 DEF GivenInv
          <6>1. SamplesPerSync * trainerVersion \in Int /\ RequiredSamples * (TriggerSteps - 1) \in Int
            BY <1>1, Sizes
          <6>2. localTriggerStep' - 1 = 0  BY <5>1
          <6> QED  BY <1>2, <2>1, <4>1, <5>1, <5>2, <6>1, <6>2, Sizes
        <5> QED  BY <4>1, <5>1, <5>3, Sizes
      <4> QED  BY <4>2, <4>3, Sizes
    <3>2. CASE DecideExtraSync
      <4>1. tpc = "decide" /\ batch = {} /\ Ended /\ batch' = batch  BY <3>2 DEF DecideExtraSync
      <4>2. Ended' /\ localTriggerStep' \in {1, localTriggerStep} /\ tpc' \in {"waitValid", "lastSave"}
            /\ (tpc' = "waitValid" => localTriggerStep' = 1)
        BY <3>2 DEF DecideExtraSync, NewVersion
      <4>3. SamplesPerSync * (trainerVersion' - 1) <= Cardinality(Given)
        <5>1. trainerVersion' \in {trainerVersion, trainerVersion + 1}
          BY <3>2 DEF DecideExtraSync, NewVersion
        <5>2. SamplesPerSync * trainerVersion <= Cardinality(Given)
              /\ SamplesPerSync * (trainerVersion - 1) <= Cardinality(Given)
          BY <4>1
        <5>3. trainerVersion + 1 - 1 = trainerVersion  BY <1>1
        <5>4. CASE trainerVersion' = trainerVersion  BY <5>2, <5>4
        <5>5. CASE trainerVersion' = trainerVersion + 1
          <6>1. trainerVersion' - 1 = trainerVersion  BY <1>1, <5>5
          <6> QED  BY ONLY <5>2, <6>1
        <5> QED  BY <5>1, <5>4, <5>5
      <4> QED  BY <4>1, <4>2, <4>3, Sizes
    <3>3. CASE LogValidation  
      <4>1. /\ tpc \in {"firstLog", "log", "lastLog", "extraLog"} /\ batch = {} /\ batch' = {}
            /\ tpc' = CASE tpc = "firstLog" -> "collect" [] tpc = "log" -> "save"
                         [] tpc = "lastLog" -> "decide" [] tpc = "extraLog" -> "lastSave"
            /\ UNCHANGED <<afterSync, localTriggerStep, trainerVersion>>
        BY <3>3 DEF LogValidation, LogLabels, AfterLog
      <4>2. Cardinality(batch') < RequiredSamples  BY <1>2, <4>1, Sizes
      <4> QED  BY <4>1, <4>2
    <3>4. CASE CollectWaits  BY <3>4 DEF CollectWaits
    <3>5. CASE SyncPauses  BY <3>5 DEF SyncPauses
    <3>6. CASE SyncVersions  BY <3>6 DEF SyncVersions
    <3>7. CASE SyncTransfers  BY <1>0, <3>7 DEF SyncTransfers, SyncType
    <3>8. CASE SaveCheckpoint
      <4>1. tpc' \in {"collect", "done"} /\ (tpc = "save" <=> tpc' = "collect")
            /\ UNCHANGED <<batch, localTriggerStep, trainerVersion, afterSync>>
            /\ tpc \in {"save", "lastSave"}
        BY <3>8 DEF SaveCheckpoint
      <4>2. batch = {} /\ batch' = {} /\ Cardinality(batch') < RequiredSamples
        <5>1. batch = {} /\ batch' = {}  BY <4>1
        <5> QED  BY ONLY <1>2, <5>1, Sizes
      <4>3. UNCHANGED <<afterSync, localTriggerStep, trainerVersion, Given, Trained>>  BY <2>1, <4>1
      <4>4. CASE tpc = "save"  BY <4>1, <4>2, <4>3, <4>4
      <4>5. CASE tpc = "lastSave"  BY <4>1, <4>2, <4>3, <4>5
      <4> QED  BY <4>1, <4>4, <4>5
    <3>9. CASE LastWait  BY <3>9 DEF LastWait
    <3>10. ~Collect  BY <1>4, <2>3 DEF Collects
    <3> QED
      BY <2>3, <3>1, <3>2, <3>3, <3>4, <3>5, <3>6, <3>7, <3>8, <3>9, <3>10 DEF TrainNext
  <2> QED  BY <1>0, <2>2, <2>3 DEF Written
<1> QED  BY <1>3, <1>4
-----------------------------------------------------------------------------
(* The validation results that wait, in the queue or still to be put there. *)

LEMMA InitValid == Init => ValidInv
BY DEF Init, RolloutInit, SharedInit, TrainInit, ValidInv, Unlogged, Reporting, Names, Calls

LEMMA NextValid ==
  ASSUME SyncInv, ValidInv, [Next]_vars
  PROVE  ValidInv'
<1>0. Written /\ Moved /\ SyncType /\ CallsInOrder  BY Frames DEF SyncInv
<1>1. valQueue \in Nat /\ Unlogged \in Nat  BY DEF ValidInv, Unlogged
<1> USE DEF Calls
<1>2. CASE TrainNext /\ UNCHANGED rolloutVars
  <2>0. pc' = pc /\ afterSync \in {"log", "extraWait"}  BY <1>0, <1>2 DEF rolloutVars, SyncType
  <2>1. CASE LogValidation
    <3>1. /\ tpc \in LogLabels /\ tpc' = AfterLog(tpc) /\ rpc' = rpc /\ afterSync' = afterSync
          /\ \/ valQueue > 0 /\ valQueue' = valQueue - 1
             \/ valQueue = 0 /\ valQueue' = 0
      BY <2>1 DEF LogValidation, MQ!GetValidate, stepVars, mqVars
    <3>2. Reporting' <=> Reporting  BY <2>0, <3>1 DEF Reporting
    <3> QED  BY <1>1, <3>1, <3>2 DEF ValidInv, Unlogged, LogLabels, AfterLog
  <2>2. CASE SyncTransfers
    <3>1. tpc = "transfer" /\ tpc' = afterSync /\ afterSync' = afterSync /\ valQueue' = valQueue
          /\ rpc'["update"] = "sent"
      BY <1>0, <2>2 DEF SyncTransfers, SyncType, stepVars, mqVars
    <3>2. ~Reporting /\ Reporting'  BY <1>0, <3>1 DEF Reporting, CallsInOrder, LastSyncOver, SyncType
    <3> QED  BY <1>1, <2>0, <3>1, <3>2 DEF ValidInv, Unlogged
  <2>3. CASE ~LogValidation /\ ~SyncTransfers
    <3>1. valQueue' = valQueue  BY <1>0, <2>3, <1>2 DEF Written, TrainNext, LogValidation, ValidationArrives, rolloutVars,
      CollectWaits, MQ!GetSampleWaits, Collect, MQ!GetSample, TrainStep,
      SyncPauses, SyncVersions, MQ!UpdateParamVersion, SyncTransfers, SaveCheckpoint, LastWait, DecideExtraSync, mqVars
    <3>2. rpc'["update"] = rpc["update"]
      BY <1>0, <1>2, <2>3 DEF TrainNext, CollectWaits, Collect, TrainStep, SyncPauses, SyncVersions, SaveCheckpoint,
                         LastWait, DecideExtraSync, SyncType
    <3>3. Reporting' <=> Reporting  BY <2>0, <3>2 DEF Reporting
    <3>4. Unlogged' = Unlogged  BY <3>1, <3>3 DEF Unlogged
    <3>5. CASE LastWait
      <4>1. LastSyncOver /\ afterSync' = afterSync  BY <3>5 DEF LastWait, stepVars
      <4>2. ~Reporting  BY <1>0, <4>1 DEF Reporting, CallsInOrder, LastSyncOver
      <4> QED  BY <3>1, <3>3, <3>4, <3>5, <4>1, <4>2 DEF ValidInv, LastWait
    <3>6. CASE DecideExtraSync
      <4>1. tpc = "decide" /\ tpc' \in {"waitValid", "lastSave"}  BY <3>6 DEF DecideExtraSync, NewVersion
      <4> QED  BY <3>1, <3>3, <3>4, <4>1 DEF ValidInv
    <3>7. CASE TrainStep
      <4>1. tpc = "train" /\ (tpc' = "log" \/ (tpc' = "waitValid" /\ afterSync' = "log"))
        BY <3>7 DEF TrainStep, NewVersion
      <4> QED  BY <1>1, <3>1, <3>3, <3>4, <4>1 DEF ValidInv
    <3>8. CASE CollectWaits \/ Collect \/ SyncPauses \/ SyncVersions \/ SaveCheckpoint
      <4>1. /\ afterSync' = afterSync
            /\ \/ tpc' = tpc
               \/ tpc = "collect" /\ tpc' \in {"lastWait", "train"}
               \/ tpc = "waitValid" /\ tpc' = "pausing"
               \/ tpc = "pausing" /\ tpc' = "transfer"
               \/ tpc = "save" /\ tpc' = "collect"
               \/ tpc = "lastSave" /\ tpc' = "done"
        BY <3>8 DEF CollectWaits, Collect, SyncPauses, SyncVersions, SaveCheckpoint, trainVars, stepVars
      <4> QED  BY <1>1, <3>1, <3>3, <3>4, <4>1 DEF ValidInv
    <3> QED  BY <1>2, <2>3, <3>5, <3>6, <3>7, <3>8 DEF TrainNext
  <2> QED  BY <2>1, <2>2, <2>3
<1>3. CASE UNCHANGED trainVars
  <2>1. UNCHANGED <<tpc, afterSync>>  BY <1>3 DEF trainVars, stepVars
  <2> SUFFICES valQueue' \in Nat /\ Unlogged' = Unlogged /\ (Reporting' => Reporting)
    BY <1>0, <2>1, <1>1 DEF ValidInv
  <2>2. CASE ValidationArrives
    <3>1. pc["update"] = "reporting" /\ valQueue' = valQueue + 1 /\ rpc' = rpc /\ pc'["update"] = "reported"
      BY <1>0, <2>2 DEF ValidationArrives, MQ!PutValidate, Goto, SyncType, Names
    <3>2. Reporting /\ ~Reporting'  BY <1>0, <3>1 DEF Reporting, CallsInOrder, SyncType
    <3> QED  BY <1>1, <3>1, <3>2 DEF Unlogged
  <2>3. CASE \E c \in Calls : CallArrives(c)
    <3>1. valQueue' = valQueue  BY <2>3 DEF CallArrives, mqVars
    <3>2. PICK c \in Calls : rpc[c] = "sent" /\ rpc' = [rpc EXCEPT ![c] = "running"] /\ pc' = [pc EXCEPT ![c] = "start"]
      BY <2>3 DEF CallArrives, Goto
    <3>3. Reporting' <=> Reporting  BY <1>0, <3>2 DEF Reporting, SyncType, Names
    <3> QED  BY <1>1, <3>1, <3>3 DEF Unlogged
  <2>4. CASE ~ValidationArrives /\ ~\E c \in Calls : CallArrives(c)
    <3>1. ~LogValidation /\ ~SyncPauses /\ ~SyncTransfers
      <4>1. ~LogValidation  BY <2>1 DEF LogValidation, AfterLog, LogLabels
      <4>2. ~SyncPauses  BY <2>1 DEF SyncPauses
      <4>3. ~SyncTransfers  BY <1>0, <2>1 DEF SyncTransfers, SyncType
      <4> QED  BY <4>1, <4>2, <4>3
    <3>2. valQueue' = valQueue  BY <1>0, <2>4, <3>1 DEF Written
    <3>3. rpc' = rpc \/ PauseReturns \/ UpdateReturns \/ ResumeReturns  BY <1>0, <2>4, <3>1 DEF Written
    <3>4. (rpc'["update"] = "sent" <=> rpc["update"] = "sent")
          /\ (pc["update"] = "reported" => ~Reporting)
      <4>1. pc["update"] = "reported" => rpc["update"] = "running"  BY <1>0 DEF CallsInOrder
      <4>2. CASE UpdateReturns
        <5>1. pc["update"] = "reported" /\ rpc'["update"] = "done"
          BY <1>0, <4>2 DEF UpdateReturns, Returns, SyncType
        <5> QED  BY <4>1, <5>1 DEF Reporting
      <4>3. CASE rpc' = rpc \/ PauseReturns \/ ResumeReturns
        <5>1. rpc'["update"] = rpc["update"]  BY <1>0, <4>3 DEF PauseReturns, ResumeReturns, Returns, SyncType
        <5> QED  BY <4>1, <5>1 DEF Reporting
      <4> QED  BY <3>3, <4>2, <4>3
    <3>5. \/ pc'["update"] = pc["update"] \/ UpdateSteps \/ CallAcquires("update")  BY <1>0, <2>4 DEF Moved
    <3>6. UpdateLocked \/ QueueSizeAnswers \/ UpdateResets \/ UpdateReturns \/ CallAcquires("update")
          => \/ /\ pc["update"] \in {"start", "locked", "sizing", "sized", "reporting"}
                /\ pc'["update"] \in {"start", "locked", "sizing", "sized", "reporting"}
             \/ pc["update"] = "reported" /\ pc'["update"] = "none"
      BY <1>0 DEF UpdateLocked, QueueSizeAnswers, UpdateResets, UpdateReturns, CallAcquires, Goto, SyncType, Names
    <3>7. Reporting' <=> Reporting  BY <2>4, <3>4, <3>5, <3>6 DEF Reporting, UpdateSteps
    <3> QED  BY <1>1, <3>2, <3>7 DEF Unlogged
  <2> QED  BY <2>2, <2>3, <2>4
<1> QED  BY <1>0, <1>2, <1>3 DEF Written

\* When the trainer stops it has logged the validation result of every version:
\* at most one waits at a time, and wait_last_valid lets the last one arrive.
THEOREM ValidationLoggedHolds == Spec => []ValidationLogged
<1>1. ValidInv => ValidationLogged  BY DEF ValidInv, ValidationLogged, Unlogged
<1>2. SyncInv /\ ValidInv /\ [Next]_vars => SyncInv' /\ ValidInv'  BY NextSync, NextValid
<1> QED  BY InitSync, InitValid, <1>1, <1>2, PTL DEF Spec
-----------------------------------------------------------------------------
(* How far a sample's version lags behind.                                 *)

\* The stations of a task.
TaskMoves(s) ==
  \/ task'[s] = task[s]
  \/ task[s] = "none" /\ task'[s] = "created" /\ s = hand /\ ProcSubmits
  \/ /\ task[s] \in {"created", "sent", "generating", "interrupted", "refused"}
     /\ task'[s] \in {"sent", "generating", "interrupted", "refused", "completed", "cancelled", "raised"}
  \/ task[s] = "completed" /\ task'[s] = "putting" /\ TaskCompletes(s)
  \/ task[s] = "putting" /\ task'[s] = "put" /\ PutArrives(s)
  \/ task[s] \in {"put", "cancelled", "raised"} /\ task'[s] = "none" /\ TaskEnds(s)

LEMMA NextTask ==
  ASSUME SyncInv, FlowInv, [Next]_vars, NEW s \in Samples
  PROVE  TaskMoves(s)
<1>0. Written /\ SyncType /\ task \in [Samples -> TaskStates]
  BY Frames DEF SyncInv, FlowInv, FlowType
<1>1. CASE ProcSubmits
  <2>1. hand \in Samples /\ task' = [task EXCEPT ![hand] = "created"] /\ task[hand] = "none"
    BY <1>1, Sizes DEF ProcSubmits, FlowInv, FlowType, InHand, PlacedOnce
  <2> QED  BY <1>0, <1>1, <2>1 DEF TaskMoves
<1>2. CASE ServersCancel
  <2>1. task'[s] = IF task[s] = "generating" THEN "interrupted" ELSE task[s]  BY <1>2 DEF ServersCancel
  <2> QED  BY <2>1 DEF TaskMoves
<1>3. ASSUME NEW t \in Samples, TaskStarts(t) \/ TaskCompletes(t) \/ TaskEnds(t) \/ Generation(t)
      PROVE  TaskMoves(s)
  <2>1. CASE TaskStarts(t)  BY <1>0, <2>1 DEF TaskStarts, TaskMoves
  <2>2. CASE TaskCompletes(t)
    <3>1. task[t] = "completed" /\ task' = [task EXCEPT ![t] = "putting"]  BY <2>2 DEF TaskCompletes
    <3> QED  BY <1>0, <2>2, <3>1 DEF TaskMoves
  <2>3. CASE TaskEnds(t)
    <3>1. task[t] \in {"put", "cancelled", "raised"} /\ task' = [task EXCEPT ![t] = "none"]
      BY <2>3 DEF TaskEnds
    <3> QED  BY <1>0, <2>3, <3>1 DEF TaskMoves
  <2>4. CASE ServerAccepts(t)  BY <1>0, <2>4 DEF ServerAccepts, Accepted, TaskMoves
  <2>5. CASE GenerationEnds(t)  BY <1>0, <2>5 DEF GenerationEnds, TaskMoves
  <2>6. CASE PutArrives(t)
    <3>1. task[t] = "putting" /\ task' = [task EXCEPT ![t] = "put"]  BY <2>6 DEF PutArrives
    <3> QED  BY <1>0, <2>6, <3>1 DEF TaskMoves
  <2> QED  BY <1>3, <2>1, <2>2, <2>3, <2>4, <2>5, <2>6 DEF Generation
<1>4. CASE task' = task  BY <1>4 DEF TaskMoves
<1> QED  BY <1>0, <1>1, <1>2, <1>3, <1>4 DEF Written

\* Nobody acts inside the critical section while another is there.
LEMMA OneInside ==
  ASSUME LockInv, NEW n \in Names, Runs(Co(n)), Holding(n, pc[n]), NEW m \in Names, m /= n
  PROVE  Holding(m, pc[m]) => Entering(m, pc[m]) /\ In(lockQueue, Co(m))
<1>1. holder = Co(n)  BY RunsAwake
<1>2. holder /= Co(m)  BY <1>1, Distinct
<1> QED  BY <1>2 DEF LockInv

LEMMA InitGather == Init => GatherInv
BY DEF Init, RolloutInit, SharedInit, GatherInv, AllGathered, Names

LEMMA NextLive ==
  ASSUME AsyncInv, CountInv, GatherInv, [Next]_vars, AllGathered'
  PROVE  Live' = {}
<1>0. Written /\ Moved /\ SyncType /\ LockInv  BY Frames DEF AsyncInv, SyncInv
<1>1. \A s \in Samples : TaskMoves(s)  BY NextTask DEF AsyncInv
<1>2. CASE AllGathered
  <2>1. Live = {}  BY <1>2 DEF GatherInv
  <2>2. ~ProcSubmits
    <3> SUFFICES ASSUME ProcSubmits PROVE FALSE  OBVIOUS
    <3>1. PICK p \in Names : p = "proc"  BY DEF Names
    <3>2. PICK q \in Names : q = "pause"  BY DEF Names
    <3>3. Runs(Co(p)) /\ Holding(p, pc[p]) /\ Holding(q, pc[q]) /\ ~Entering(q, pc[q]) /\ p /= q
      BY <1>2, <3>1, <3>2 DEF ProcSubmits, Holding, Entering, AllGathered
    <3> QED  BY <1>0, <3>3, OneInside
  <2>3. \A s \in Samples : task'[s] = task[s]  BY <1>1, <2>1, <2>2 DEF TaskMoves, Live
  <2> QED  BY <2>1, <2>3 DEF Live
<1>3. CASE ~AllGathered
  <2>1. PauseSteps \/ \E s \in Samples : TaskEnds(s)
    BY <1>0, <1>3 DEF Moved, AllGathered, CallArrives, CallAcquires, Goto, SyncType, Names
  <2>2. ASSUME NEW t \in Samples, TaskEnds(t) PROVE Live' = {}
    <3>1. EndsGather  BY <1>0, <1>3, <2>2 DEF TaskEnds, PcAfterTaskEnd, AllGathered, SyncType, Names
    <3>2. t \in Live /\ Cardinality(Live) = 1 /\ Live \in SUBSET Samples
      BY <2>2, <3>1 DEF EndsGather, TaskEnds, Live
    <3>3. Live = {t}
      <4>1. IsFiniteSet(Live \ {t}) /\ Cardinality(Live \ {t}) = Cardinality(Live) - 1
        BY <3>2, Finite, FS_RemoveElement
      <4>2. Live \ {t} = {}  BY <3>2, <4>1, FS_EmptySet
      <4> QED  BY <3>2, <4>2
    <3>4. task' = [task EXCEPT ![t] = "none"] /\ task \in [Samples -> TaskStates]
      BY <2>2 DEF TaskEnds, AsyncInv, FlowInv, FlowType
    <3> QED  BY <3>3, <3>4 DEF Live
  <2>3. CASE PauseSteps
    <3>1. (PauseGathers /\ Live = {}) \/ (PauseGathered /\ ActiveTasks = 0)
      BY <1>0, <1>3, <2>3 DEF PauseSteps, PauseLocked, ServersCancel, PauseGathers, PauseGathered, ServersReset,
                         PauseReturns, AllGathered, Goto, SyncType, Names
    <3>2. Live = {}
      <4>1. Cardinality(Live) \in Nat /\ Cardinality(failed) \in Nat /\ finished \in Nat /\ Live \in SUBSET Samples
        BY Finite DEF Live, CountInv
      <4>2. ActiveTasks = 0 => Cardinality(Live) = 0  BY <4>1 DEF ActiveTasks
      <4>3. Cardinality(Live) = 0 => Live = {}  BY <4>1, Finite, FS_EmptySet
      <4> QED  BY <3>1, <4>2, <4>3
    <3>3. task' = task  BY <3>1 DEF PauseGathers, PauseGathered, flowVars
    <3> QED  BY <3>2, <3>3 DEF Live
  <2> QED  BY <2>1, <2>2, <2>3
<1> QED  BY <1>2, <1>3

LEMMA NextSince ==
  ASSUME SyncInv, [Next]_vars, SinceGather'
  PROVE  SinceGather \/ AllGathered'
<1>0. Written /\ Moved /\ SyncType /\ CallsInOrder  BY Frames DEF SyncInv
<1> USE DEF Calls
<1>1. CASE rpc'["pause"] = "done" /\ rpc["pause"] /= "done"
  <2>1. ~SyncPauses /\ ~SyncTransfers /\ ~\E c \in Calls : CallArrives(c)
    BY <1>0, <1>1 DEF SyncPauses, SyncTransfers, CallArrives, SyncType
  <2>2. ~UpdateReturns /\ ~ResumeReturns
    BY <1>0, <1>1 DEF UpdateReturns, ResumeReturns, Returns, SyncType
  <2>3. PauseReturns  BY <1>0, <1>1, <2>1, <2>2 DEF Written
  <2> QED  BY <2>3 DEF PauseReturns, SinceGather, AllGathered
<1>2. CASE rpc'["update"] = "sent" /\ rpc["update"] /= "sent"
  <2>1. ~SyncPauses /\ ~\E c \in Calls : CallArrives(c)
    BY <1>0, <1>2 DEF SyncPauses, CallArrives, SyncType
  <2>2. ~UpdateReturns /\ ~ResumeReturns /\ ~PauseReturns
    BY <1>0, <1>2 DEF UpdateReturns, ResumeReturns, PauseReturns, Returns, SyncType
  <2>3. SyncTransfers  BY <1>0, <1>2, <2>1, <2>2 DEF Written
  <2> QED  BY <1>0, <2>3 DEF SyncTransfers, CallsInOrder, SinceGather
<1>3. CASE pc'["update"] \in {"start", "locked"} /\ pc["update"] \notin {"start", "locked"}
  <2>1. ~CallAcquires("update")  BY <1>3 DEF CallAcquires
  <2>2. ~UpdateSteps
    BY <1>0, <1>3 DEF UpdateSteps, UpdateLocked, QueueSizeAnswers, UpdateResets, ValidationArrives, UpdateReturns,
                      Goto, SyncType, Names
  <2>3. CallArrives("update")  BY <1>0, <1>3, <2>1, <2>2 DEF Moved
  <2> QED  BY <2>3 DEF CallArrives, SinceGather
<1> QED  BY <1>1, <1>2, <1>3 DEF SinceGather

LEMMA NextGather ==
  ASSUME AsyncInv, CountInv, GatherInv, [Next]_vars
  PROVE  GatherInv'
<1>0. Written /\ Moved /\ SyncType /\ LockInv /\ CallsInOrder /\ VersionsAt
  BY Frames DEF AsyncInv, SyncInv
<1>1. AllGathered' => Live' = {}  BY NextLive
<1>2. \A s \in Samples : TaskMoves(s)  BY NextTask DEF AsyncInv
<1>3. SinceGather' => SinceGather \/ AllGathered'  BY NextSince DEF AsyncInv
<1>4. CASE UpdateLocked
  <2>1. /\ pc["update"] = "locked" /\ rolloutVersion' = mqVersion /\ UNCHANGED <<task, sampleVersion, rpc>>
        /\ pc' = [pc EXCEPT !["update"] = "sizing"] /\ Runs(Co("update"))
    BY <1>4 DEF UpdateLocked, Goto, flowVars
  <2>2. SinceGather /\ mqVersion = rolloutVersion + 1 /\ rolloutVersion \in Nat
    BY <1>0, <2>1 DEF SinceGather, VersionsAt, Untold, SyncType
  <2>3. ~SinceGather'
    <3>1. ~AllGathered
      <4>1. PICK p \in Names : p = "update"  BY DEF Names
      <4>2. PICK q \in Names : q = "pause"  BY DEF Names
      <4>3. Runs(Co(p)) /\ Holding(p, pc[p]) /\ p /= q
        BY <2>1, <4>1, <4>2 DEF Holding, Entering, Calls
      <4>4. AllGathered => Holding(q, pc[q]) /\ ~Entering(q, pc[q])
        BY <4>2 DEF Holding, Entering, AllGathered
      <4> QED  BY <1>0, <4>3, <4>4, OneInside
    <3>2. pc'["pause"] = pc["pause"] /\ pc'["update"] = "sizing" /\ rpc["update"] = "running"
      BY <1>0, <2>1 DEF SyncType, Names, CallsInOrder, Calls
    <3>3. rpc["pause"] /= "done"  BY <1>0, <3>2 DEF CallsInOrder, LastSyncOver
    <3> QED  BY <2>1, <3>1, <3>2, <3>3 DEF SinceGather, AllGathered
  <2> QED  BY <1>1, <2>1, <2>2, <2>3 DEF GatherInv
<1>5. ASSUME NEW t \in Samples, TaskCompletes(t) PROVE GatherInv'
  <2>1. /\ sampleVersion' = [sampleVersion EXCEPT ![t] = rolloutVersion]
        /\ task' = [task EXCEPT ![t] = "putting"]
        /\ UNCHANGED <<pc, rpc, rolloutVersion>>
    BY <1>5 DEF TaskCompletes, restVars
  <2>2. SinceGather' <=> SinceGather  BY <2>1 DEF SinceGather, AllGathered
  <2>3. rolloutVersion \in Nat /\ task = [s \in Samples |-> task[s]]  BY <1>0 DEF SyncType
  <2> QED  BY <1>1, <2>1, <2>2, <2>3 DEF GatherInv
<1>6. CASE ~UpdateLocked /\ ~\E t \in Samples : TaskCompletes(t)
  <2>1. sampleVersion' = sampleVersion /\ rolloutVersion' = rolloutVersion  BY <1>0, <1>6 DEF Written
  <2>2. \A s \in Samples : task'[s] = "putting" => task[s] = "putting"  BY <1>2, <1>6 DEF TaskMoves
  <2>3. AllGathered' => \A s \in Samples : task'[s] /= "putting"  BY <1>1 DEF Live
  <2> QED  BY <1>1, <1>3, <2>1, <2>2, <2>3 DEF GatherInv
<1> QED  BY <1>4, <1>5, <1>6

\* The message queue takes its newest at the end, and drops its oldest when full.
LEMMA PutPlaces ==
  ASSUME queue \in Seq(1 .. End), Len(queue) <= MaxRequiredSamples, NEW x \in 1 .. End, MQ!PutSample(x)
  PROVE  /\ UNCHANGED got
         /\ Len(queue) \in Nat /\ Len(queue') \in 1 .. MaxRequiredSamples /\ queue'[Len(queue')] = x
         /\ \/ /\ Len(queue) < MaxRequiredSamples /\ Len(queue') = Len(queue) + 1
               /\ droppedSamples' = droppedSamples + 0
               /\ \A i \in 1 .. Len(queue) : queue'[i] = queue[i]
            \/ /\ Len(queue) = MaxRequiredSamples /\ Len(queue') = Len(queue)
               /\ droppedSamples' = droppedSamples + 1
               /\ \A i \in 1 .. Len(queue) - 1 : queue'[i] = queue[i + 1] /\ i + 1 \in 1 .. Len(queue)
<1>1. MQ!Full <=> Len(queue) >= MaxRequiredSamples  BY DEF MQ!Full
<1>2. Len(queue) \in Nat /\ MaxRequiredSamples \in Nat \ {0}  BY LenProperties, Sizes
<1>3. CASE MQ!Full
  <2>1. queue' = Append(Tail(queue), x) /\ UNCHANGED got /\ droppedSamples' = droppedSamples + 1
    BY <1>3 DEF MQ!PutSample
  <2>2. queue /= <<>>  BY <1>1, <1>2, <1>3, EmptySeq
  <2>3. /\ Tail(queue) \in Seq(1 .. End) /\ Len(Tail(queue)) = Len(queue) - 1
        /\ \A i \in 1 .. Len(queue) - 1 : Tail(queue)[i] = queue[i + 1]
    BY <2>2, HeadTailProperties
  <2> DEFINE kept == Tail(queue)
  <2> HIDE DEF kept
  <2>4. kept \in Seq(1 .. End) => /\ Len(Append(kept, x)) = Len(kept) + 1
                                  /\ Append(kept, x)[Len(kept) + 1] = x
                                  /\ \A i \in 1 .. Len(kept) : Append(kept, x)[i] = kept[i]
    BY AppendProperties
  <2>5. /\ Len(queue') = Len(queue) /\ queue'[Len(queue)] = x
        /\ \A i \in 1 .. Len(queue) - 1 : queue'[i] = queue[i + 1]
    BY <1>2, <2>1, <2>3, <2>4 DEF kept
  <2> QED  BY <1>1, <1>2, <1>3, <2>1, <2>5
<1>4. CASE ~MQ!Full
  <2>1. queue' = Append(queue, x) /\ UNCHANGED got /\ droppedSamples' = droppedSamples + 0
    BY <1>4 DEF MQ!PutSample
  <2>2. /\ Len(queue') = Len(queue) + 1 /\ queue'[Len(queue) + 1] = x
        /\ \A i \in 1 .. Len(queue) : queue'[i] = queue[i]
    BY <2>1, AppendProperties
  <2> QED  BY <1>1, <1>2, <1>4, <2>1, <2>2
<1> QED  BY <1>3, <1>4

LEMMA InitLag == Init => LagInv
<1> SUFFICES ASSUME Init PROVE LagInv  OBVIOUS
<1>1. queue = <<>> /\ batch = {}  BY DEF Init, SharedInit, TrainInit
<1>2. Len(queue) = 0  BY <1>1, EmptySeq
<1> QED  BY <1>1, <1>2, Sizes DEF LagInv

\* While the trainer collects for version v it has been given at most the samples
\* up to the next; and the rollouter is not two versions behind.
LEMMA GivenUpTo ==
  ASSUME SyncInv, GivenInv, ~Ended
  PROVE  /\ Cardinality(Given) <= SamplesPerSync * (trainerVersion + 1)
         /\ SamplesPerSync * trainerVersion <= Cardinality(Given)
         /\ Cardinality(Given) <= SamplesPerSync * (rolloutVersion + 2)
         /\ ~SinceGather => Cardinality(Given) <= SamplesPerSync * (rolloutVersion + 1)
<1>1. /\ Cardinality(Given) = SamplesPerSync * trainerVersion
                                + RequiredSamples * (localTriggerStep - 1) + Cardinality(batch)
      /\ localTriggerStep \in Nat /\ 1 <= localTriggerStep /\ localTriggerStep <= TriggerSteps
  BY DEF GivenInv
<1>2. trainerVersion \in Nat /\ rolloutVersion \in Nat /\ Cardinality(batch) \in Nat
  <2>1. batch \in SUBSET Samples  BY DEF GivenInv, Given
  <2> QED  BY <2>1, Finite DEF SyncInv, SyncType
<1>3. Cardinality(batch) <= RequiredSamples /\ (tpc \notin {"collect", "train"} => Cardinality(batch) = 0)
  BY <1>2, FS_EmptySet, Sizes DEF GivenInv
<1>4. RequiredSamples * (localTriggerStep - 1) + RequiredSamples <= SamplesPerSync
      /\ RequiredSamples * (localTriggerStep - 1) \in Nat
  <2>1. RequiredSamples * (localTriggerStep - 1) + RequiredSamples = RequiredSamples * localTriggerStep
    BY <1>1, Sizes
  <2>2. RequiredSamples * localTriggerStep <= RequiredSamples * TriggerSteps  BY <1>1, Sizes
  <2>3. RequiredSamples * (localTriggerStep - 1) \in Nat  BY <1>1, Sizes
  <2> QED  BY <2>1, <2>2, <2>3, Sizes
<1>5. \A v \in Nat : /\ SamplesPerSync * v \in Nat
                     /\ SamplesPerSync * (v + 1) = SamplesPerSync * v + SamplesPerSync
                     /\ SamplesPerSync * (v + 2) = SamplesPerSync * v + SamplesPerSync + SamplesPerSync
  BY Sizes
<1>6. /\ Cardinality(Given) <= SamplesPerSync * trainerVersion + SamplesPerSync
      /\ SamplesPerSync * trainerVersion <= Cardinality(Given)
      /\ tpc \in {"waitValid", "pausing"} => Cardinality(Given) = SamplesPerSync * trainerVersion
  <2>1. tpc \in {"waitValid", "pausing"} => RequiredSamples * (localTriggerStep - 1) = 0
    <3>1. tpc \in {"waitValid", "pausing"} => localTriggerStep - 1 = 0  BY DEF GivenInv
    <3>2. RequiredSamples * 0 = 0  BY Sizes
    <3> QED  BY <3>1, <3>2
  <2> DEFINE a == RequiredSamples * (localTriggerStep - 1)
             b == SamplesPerSync * trainerVersion
             c == Cardinality(batch)
  <2>2. /\ a \in Nat /\ b \in Nat /\ c \in Nat /\ a + RequiredSamples <= SamplesPerSync /\ c <= RequiredSamples
        /\ Cardinality(Given) = b + a + c
        /\ tpc \in {"waitValid", "pausing"} => a = 0 /\ c = 0
    BY <1>1, <1>2, <1>3, <1>4, <1>5, <2>1
  <2> HIDE DEF a, b, c
  <2>3. Cardinality(Given) <= b + SamplesPerSync /\ b <= Cardinality(Given)
        /\ (tpc \in {"waitValid", "pausing"} => Cardinality(Given) = b)
    BY <2>2, Sizes
  <2> QED  BY <2>3 DEF b
<1>7. Cardinality(Given) \in Nat  BY Finite DEF Given
<1>8. \/ trainerVersion = rolloutVersion
      \/ trainerVersion = rolloutVersion + 1 /\ tpc \in {"waitValid", "pausing"}
      \/ trainerVersion = rolloutVersion + 1 /\ SinceGather
      \/ trainerVersion = rolloutVersion + 2 /\ tpc \in {"waitValid", "pausing"} /\ SinceGather
  <2>1. Untold => SinceGather  BY DEF Untold, SinceGather, SyncInv, CallsInOrder
  <2>2. /\ trainerVersion = IF tpc \in {"waitValid", "pausing"} THEN mqVersion + 1 ELSE mqVersion
        /\ mqVersion = IF Untold THEN rolloutVersion + 1 ELSE rolloutVersion
    BY DEF SyncInv, VersionsAt
  <2> QED  BY <1>2, <2>1, <2>2
<1> DEFINE P(v) == SamplesPerSync * v
<1>9. /\ \A v \in Nat : P(v) \in Nat /\ P(v + 1) = P(v) + SamplesPerSync
                          /\ P(v + 2) = P(v) + SamplesPerSync + SamplesPerSync
      /\ Cardinality(Given) <= P(trainerVersion) + SamplesPerSync
      /\ P(trainerVersion) <= Cardinality(Given)
      /\ tpc \in {"waitValid", "pausing"} => Cardinality(Given) = P(trainerVersion)
  BY <1>5, <1>6
<1> HIDE DEF P
<1>10. /\ Cardinality(Given) <= P(trainerVersion + 1) /\ P(trainerVersion) <= Cardinality(Given)
       /\ Cardinality(Given) <= P(rolloutVersion + 2)
       /\ ~SinceGather => Cardinality(Given) <= P(rolloutVersion + 1)
  BY <1>2, <1>7, <1>8, <1>9, Sizes
<1> QED  BY <1>10 DEF P

\* A sample that goes to the queue.
LEMMA PutLag ==
  ASSUME SyncInv, GivenInv, GatherInv, ~Ended, NEW s \in Samples, task[s] = "putting"
  PROVE  Cardinality(Given) <= SamplesPerSync * (sampleVersion[s] + 2)
<1>1. /\ sampleVersion[s] = rolloutVersion \/ sampleVersion[s] = rolloutVersion - 1
      /\ SinceGather => sampleVersion[s] = rolloutVersion
  BY DEF GatherInv
<1>2. rolloutVersion \in Nat  BY DEF SyncInv, SyncType
<1>3. CASE sampleVersion[s] = rolloutVersion  BY <1>3, GivenUpTo
<1>4. CASE ~SinceGather /\ sampleVersion[s] = rolloutVersion - 1
  <2>1. sampleVersion[s] + 2 = rolloutVersion + 1  BY <1>2, <1>4
  <2> QED  BY <1>4, <2>1, GivenUpTo
<1> QED  BY <1>1, <1>3, <1>4

LEMMA NextLag ==
  ASSUME AsyncInv, GivenInv, GivenInv', GatherInv, LagInv, [Next]_vars
  PROVE  LagInv'
<1>0. Written /\ SyncInv /\ SyncType /\ FlowInv  BY Frames DEF AsyncInv, SyncInv
<1>1. queue \in Seq(1 .. End) /\ Len(queue) \in Nat /\ Len(queue) <= MaxRequiredSamples
  BY <1>0, LenProperties DEF FlowInv, FlowType, LagInv
<1>2. \A s \in Samples : sampleVersion[s] \in Nat  BY DEF GatherInv
<1>3. Cardinality(Given) \in Nat /\ batch \subseteq Samples  BY Finite DEF Given, GivenInv
<1> DEFINE Bound(v) == SamplesPerSync * (v + 2) + MaxRequiredSamples
<1>4. \A v \in Nat : Bound(v) \in Nat  BY Sizes
<1>5. /\ ~Ended => \A i \in 1 .. Len(queue) : queue[i] \in Samples =>
                      Cardinality(Given) + i <= Bound(sampleVersion[queue[i]])
      /\ \A s \in batch : SamplesPerSync * trainerVersion < Bound(sampleVersion[s])
  BY DEF LagInv
<1> SUFFICES /\ Len(queue') <= MaxRequiredSamples
             /\ ~Ended' => \A i \in 1 .. Len(queue') : queue'[i] \in Samples =>
                  Cardinality(Given') + i <= Bound(sampleVersion'[queue'[i]])
             /\ \A s \in batch' : SamplesPerSync * trainerVersion' < Bound(sampleVersion'[s])
  BY DEF LagInv
<1> HIDE DEF Bound
<1>6. CASE Collects
  <2> DEFINE h == Head(queue)
  <2>1. /\ queue /= <<>> /\ queue' = Tail(queue) /\ tpc = "collect"
        /\ \/ h = End /\ batch' = {} /\ tpc' = "lastWait"
           \/ h /= End /\ batch' = batch \union {h}
        /\ UNCHANGED <<sampleVersion, trainerVersion>>
    BY <1>0, <1>6, Collected DEF Collects, Collect, stepVars, rolloutVars, flowVars
  <2>2. /\ Len(queue') = Len(queue) - 1 /\ h = queue[1]
        /\ \A i \in 1 .. Len(queue) - 1 : queue'[i] = queue[i + 1]
        /\ Len(queue) >= 1
    BY <1>1, <2>1, HeadTailProperties, EmptySeq
  <2>3. ~Ended  BY <2>1 DEF Ended
  <2>4. h /= End => h \in Samples /\ Cardinality(Given') = Cardinality(Given) + 1
    BY <1>0, <1>6, Collected DEF Collects
  <2> HIDE DEF h
  <2>5. CASE h = End
    <3>1. batch' = {} /\ Ended'  BY <2>1, <2>5 DEF Ended
    <3> QED  BY <1>1, <2>2, <3>1, Sizes
  <2>6. CASE h /= End
    <3>1. ASSUME NEW i \in 1 .. Len(queue'), queue'[i] \in Samples
          PROVE  Cardinality(Given') + i <= Bound(sampleVersion'[queue'[i]])
      <4>1. i + 1 \in 1 .. Len(queue) /\ queue'[i] = queue[i + 1]  BY <1>1, <2>2
      <4>2. Cardinality(Given) + (i + 1) <= Bound(sampleVersion[queue[i + 1]])
        BY <1>5, <2>3, <3>1, <4>1
      <4>3. Cardinality(Given') + i = Cardinality(Given) + (i + 1)  BY <1>3, <2>4, <2>6
      <4> QED  BY <2>1, <4>1, <4>2, <4>3
    <3>2. SamplesPerSync * trainerVersion < Bound(sampleVersion[h])
      <4>1. 1 \in 1 .. Len(queue) /\ queue[1] = h /\ h \in Samples  BY <1>1, <2>2, <2>4, <2>6
      <4>2. Cardinality(Given) + 1 <= Bound(sampleVersion[h])  BY <1>5, <2>3, <4>1
      <4>3. SamplesPerSync * trainerVersion <= Cardinality(Given)  BY <1>0, <2>3, GivenUpTo
      <4>4. Bound(sampleVersion[h]) \in Nat
        <5>1. sampleVersion[h] \in Nat  BY <1>2, <4>1
        <5> HIDE DEF Bound
        <5> QED  BY <1>4, <5>1
      <4>5. SamplesPerSync * trainerVersion \in Nat
        <5>1. trainerVersion \in Nat  BY <1>0 DEF SyncType
        <5> QED  BY ONLY <5>1, Sizes
      <4> QED  BY <1>3, <4>2, <4>3, <4>4, <4>5
    <3> QED  BY <1>1, <1>5, <2>1, <2>2, <2>6, <3>1, <3>2, Sizes
  <2> QED  BY <2>5, <2>6
<1>7. CASE RunnerClears
  <2>1. queue' = <<>> /\ UNCHANGED <<sampleVersion, batch, trainerVersion>>
    BY <1>7 DEF RunnerClears, MQ!ClearQueue, mqVars, rolloutVars, flowVars, trainVars, stepVars
  <2>2. Len(queue') = 0  BY <2>1, EmptySeq
  <2> QED  BY <1>5, <2>1, <2>2, Sizes
<1>8. ASSUME NEW x \in 1 .. End, MQ!PutSample(x), UNCHANGED <<sampleVersion, rolloutVersion>>, UNCHANGED trainVars,
             x \in Samples => task[x] = "putting"
      PROVE  LagInv'
  <2>1. /\ Len(queue') \in 1 .. MaxRequiredSamples /\ queue'[Len(queue')] = x /\ UNCHANGED got
        /\ \/ /\ Len(queue') = Len(queue) + 1
              /\ \A i \in 1 .. Len(queue) : queue'[i] = queue[i]
           \/ /\ Len(queue') = Len(queue)
              /\ \A i \in 1 .. Len(queue) - 1 : queue'[i] = queue[i + 1] /\ i + 1 \in 1 .. Len(queue)
    BY <1>1, <1>8, PutPlaces
  <2>2. UNCHANGED <<batch, trainerVersion>> /\ (Ended' <=> Ended) /\ Given' = Given
    BY <1>8, <2>1 DEF trainVars, stepVars, Ended, Given
  <2>3. ASSUME ~Ended', NEW i \in 1 .. Len(queue'), queue'[i] \in Samples
        PROVE  Cardinality(Given') + i <= Bound(sampleVersion'[queue'[i]])
    <3>1. CASE i = Len(queue')
      <4>1. queue'[i] = x /\ x \in Samples /\ i <= MaxRequiredSamples /\ i \in Nat
        BY <2>1, <2>3, <3>1
      <4>2. Cardinality(Given) <= SamplesPerSync * (sampleVersion[x] + 2)
        BY <1>0, <1>8, <2>2, <2>3, <4>1, PutLag
      <4>3. SamplesPerSync * (sampleVersion[x] + 2) \in Nat  BY <1>2, <4>1, Sizes
      <4>4. Cardinality(Given) + i <= SamplesPerSync * (sampleVersion[x] + 2) + MaxRequiredSamples
        BY <1>3, <4>1, <4>2, <4>3, Sizes
      <4> QED  BY <1>8, <2>2, <4>1, <4>4 DEF Bound
    <3>2. CASE i /= Len(queue')
      <4>1. \/ i \in 1 .. Len(queue) /\ queue'[i] = queue[i]
            \/ i + 1 \in 1 .. Len(queue) /\ queue'[i] = queue[i + 1]
        BY <1>1, <2>1, <3>2
      <4>2. CASE i \in 1 .. Len(queue) /\ queue'[i] = queue[i]  BY <1>5, <1>8, <2>2, <2>3, <4>2
      <4>3. CASE i + 1 \in 1 .. Len(queue) /\ queue'[i] = queue[i + 1]
        <5>1. Cardinality(Given) + (i + 1) <= Bound(sampleVersion[queue[i + 1]])
          BY <1>5, <2>2, <2>3, <4>3
        <5>2. queue[i + 1] \in Samples  BY <2>3, <4>3
        <5>3. Bound(sampleVersion[queue[i + 1]]) \in Nat  BY <1>2, <1>4, <5>2
        <5>4. Cardinality(Given) + i <= Bound(sampleVersion[queue[i + 1]])  BY <1>3, <5>1, <5>3
        <5> QED  BY <1>8, <2>2, <4>3, <5>4
      <4> QED  BY <4>1, <4>2, <4>3
    <3> QED  BY <3>1, <3>2
  <2>4. Len(queue') <= MaxRequiredSamples  BY <2>1, Sizes
  <2> QED  BY <1>5, <1>8, <2>2, <2>3, <2>4 DEF LagInv, Bound
<1>9. CASE FinishSignalArrives
  <2>1. /\ MQ!PutSample(End) /\ UNCHANGED <<sampleVersion, rolloutVersion>> /\ End \in 1 .. End /\ End \notin Samples
        /\ pc["main"] = "sending" /\ pc' = [pc EXCEPT !["main"] = "sent"]
    BY <1>9, Sizes DEF FinishSignalArrives, Goto, flowVars, restVars
  <2>2. UNCHANGED trainVars
    <3>1. pc'["main"] = "sent"  BY <1>0, <2>1 DEF SyncType, Names
    <3> QED  BY <1>0, <2>1, <3>1 DEF Written, rolloutVars
  <2> QED  BY <1>8, <2>1, <2>2 DEF LagInv, Bound
<1>10. ASSUME NEW t \in Samples, PutArrives(t) PROVE LagInv'
  <2>1. /\ MQ!PutSample(t) /\ UNCHANGED <<sampleVersion, rolloutVersion>> /\ t \in 1 .. End
        /\ task[t] = "putting" /\ task' = [task EXCEPT ![t] = "put"]
    BY <1>10, Sizes DEF PutArrives, restVars, Samples
  <2>2. UNCHANGED trainVars
    <3>1. task'[t] = "put"  BY <1>0, <2>1 DEF SyncType
    <3> QED  BY <1>0, <2>1, <3>1 DEF Written, rolloutVars, flowVars
  <2> QED  BY <1>8, <2>1, <2>2 DEF LagInv, Bound
<1>11. CASE ~Collects /\ ~RunnerClears /\ ~Puts
  <2>1. queue' = queue /\ got' = got  BY <1>0, <1>11 DEF Written
  <2>2. Given' = Given /\ (Ended' <=> Ended)  BY <2>1 DEF GivenInv, Given, Trained
  <2>3. \A s \in Samples : In(queue, s) \/ s \in batch => sampleVersion'[s] = sampleVersion[s]
    <3>1. CASE sampleVersion' = sampleVersion  BY <3>1
    <3>2. ASSUME NEW t \in Samples, TaskCompletes(t), NEW s \in Samples, In(queue, s) \/ s \in batch
          PROVE  sampleVersion'[s] = sampleVersion[s]
      <4>1. task[t] = "completed" /\ sampleVersion' = [sampleVersion EXCEPT ![t] = rolloutVersion]
        BY <3>2 DEF TaskCompletes
      <4>2. ~In(queue, t) /\ t \notin Trained
        BY <1>0, <4>1 DEF FlowInv, PlacedOnce
      <4>3. s /= t  BY <3>2, <4>2 DEF GivenInv, Given, Trained
      <4> QED  BY <4>1, <4>3 DEF GatherInv
    <3> QED  BY <1>0, <3>1, <3>2 DEF Written
  <2>4. batch' \subseteq batch /\ (trainerVersion' = trainerVersion \/ batch' = {})
    <3>1. CASE UNCHANGED trainVars  BY <3>1 DEF trainVars, stepVars
    <3>2. CASE TrainNext /\ UNCHANGED rolloutVars
      <4>1. ~Collect  BY <1>11, <3>2 DEF Collects
      <4>2. CASE TrainStep  BY <4>2 DEF TrainStep
      <4>3. CASE DecideExtraSync
        <5>1. tpc = "decide" /\ batch' = batch  BY <4>3 DEF DecideExtraSync
        <5> QED  BY <5>1 DEF GivenInv
      <4>4. CASE ~TrainStep /\ ~DecideExtraSync
        BY <3>2, <4>1, <4>4 DEF TrainNext, LogValidation, CollectWaits, SyncPauses, SyncVersions, SyncTransfers,
                                SaveCheckpoint, LastWait, trainVars, stepVars
      <4> QED  BY <4>2, <4>3, <4>4
    <3> QED  BY <1>0, <3>1, <3>2 DEF Written
  <2>5. ASSUME NEW i \in 1 .. Len(queue), queue[i] \in Samples
        PROVE  sampleVersion'[queue[i]] = sampleVersion[queue[i]]
    <3>1. In(queue, queue[i])  BY DEF In
    <3> QED  BY <2>3, <2>5, <3>1
  <2>6. \A s \in batch' : s \in batch /\ s \in Samples /\ sampleVersion'[s] = sampleVersion[s]
    BY <1>3, <2>3, <2>4
  <2>7. \A s \in batch' : SamplesPerSync * trainerVersion' < Bound(sampleVersion'[s])
    BY <1>5, <2>4, <2>6
  <2> QED  BY <1>1, <1>5, <2>1, <2>2, <2>5, <2>7
<1> QED  BY <1>6, <1>7, <1>9, <1>10, <1>11 DEF Puts, LagInv, Bound

LEMMA InitOrder == Init => OrderInv
BY InitAsync, InitCount, InitGiven, InitGather, InitLag DEF OrderInv

LEMMA NextOrder == OrderInv /\ [Next]_vars => OrderInv'
BY NextAsync, NextCount, NextGiven, NextGather, NextLag DEF OrderInv

\* For every required_samples, trigger_parameter_sync_step and staleness_threshold.
THEOREM LagBounded == Spec => []LagBound
<1>1. ASSUME OrderInv, NEW s \in batch
      PROVE  SamplesPerSync * (trainerVersion - sampleVersion[s]) < MaxRequiredSamples + 2 * SamplesPerSync
  <2>1. s \in Samples  BY <1>1 DEF OrderInv, GivenInv, Given
  <2>2. sampleVersion[s] \in Nat /\ trainerVersion \in Nat
    BY <1>1, <2>1 DEF OrderInv, GatherInv, AsyncInv, SyncInv, SyncType
  <2>3. SamplesPerSync * trainerVersion < SamplesPerSync * (sampleVersion[s] + 2) + MaxRequiredSamples
    BY <1>1 DEF OrderInv, LagInv
  <2>4. /\ SamplesPerSync * (sampleVersion[s] + 2) = SamplesPerSync * sampleVersion[s] + 2 * SamplesPerSync
        /\ SamplesPerSync * (trainerVersion - sampleVersion[s])
             = SamplesPerSync * trainerVersion - SamplesPerSync * sampleVersion[s]
        /\ SamplesPerSync * trainerVersion \in Nat /\ SamplesPerSync * sampleVersion[s] \in Nat
    BY <2>2, Sizes
  <2> QED  BY <2>3, <2>4, Sizes
<1>2. OrderInv => LagBound  BY <1>1 DEF LagBound
<1> QED  BY InitOrder, NextOrder, <1>2, PTL DEF Spec

\* Where max_required_samples is a number of whole versions (staleness_threshold
\* is an integer), that is as many versions as the samples held ahead are, and one.
THEOREM BoundedLagHolds ==
  ASSUME NEW k \in Nat, MaxRequiredSamples = k * SamplesPerSync
  PROVE  Spec => []BoundedLag
<1>1. ASSUME OrderInv PROVE BoundedLag
  <2> SUFFICES ASSUME NEW s \in batch
               PROVE  SamplesPerSync * (trainerVersion - sampleVersion[s]) <= MaxRequiredSamples + SamplesPerSync
    BY DEF BoundedLag
  <2>1. s \in Samples  BY <1>1 DEF OrderInv, GivenInv, Given
  <2>2. sampleVersion[s] \in Nat /\ trainerVersion \in Nat
    BY <1>1, <2>1 DEF OrderInv, GatherInv, AsyncInv, SyncInv, SyncType
  <2>3. SamplesPerSync * trainerVersion < SamplesPerSync * (sampleVersion[s] + 2) + MaxRequiredSamples
    BY <1>1 DEF OrderInv, LagInv
  <2> DEFINE v == trainerVersion - sampleVersion[s]
  <2>4. trainerVersion <= sampleVersion[s] + 1 + k
    <3> SUFFICES ASSUME trainerVersion >= sampleVersion[s] + 2 + k PROVE FALSE  BY <2>2
    <3>1. SamplesPerSync * (sampleVersion[s] + 2 + k) <= SamplesPerSync * trainerVersion
      BY <2>2, Sizes
    <3>2. SamplesPerSync * (sampleVersion[s] + 2 + k) = SamplesPerSync * (sampleVersion[s] + 2) + MaxRequiredSamples
      BY <2>2, Sizes
    <3>3. SamplesPerSync * (sampleVersion[s] + 2) + MaxRequiredSamples \in Nat /\ SamplesPerSync * trainerVersion \in Nat
      BY <2>2, Sizes
    <3> QED  BY <2>3, <3>1, <3>2, <3>3
  <2>5. v <= k + 1 /\ v \in Int  BY <2>2, <2>4
  <2> HIDE DEF v
  <2>6. SamplesPerSync * v <= SamplesPerSync * (k + 1)  BY <2>5, Sizes
  <2>7. SamplesPerSync * (k + 1) = MaxRequiredSamples + SamplesPerSync  BY Sizes
  <2> QED  BY <2>6, <2>7 DEF v
<1> QED  BY InitOrder, NextOrder, <1>1, PTL DEF Spec
-----------------------------------------------------------------------------
(* What is taken, and the updates it counts from.                          *)

\* The processor takes the samples one by one.
LEMMA NextTaken ==
  ASSUME SyncInv, FlowInv, [Next]_vars
  PROVE  /\ TakenTo \in Nat /\ TakenTo <= End
         /\ TakenTo' = TakenTo \/ (ProcTakes /\ TakenTo' = TakenTo + 1 /\ Head(pendingQueue) = TakenTo + 1)
<1>0. Written /\ Moved /\ SyncType /\ FlowType  BY Frames DEF SyncInv, FlowInv
<1>1. /\ TotalSteps \in Nat \ {0} /\ End = TotalSteps + 1
      /\ globalSteps \in Nat /\ globalSteps >= 1 /\ globalSteps <= TotalSteps
      /\ Len(pendingQueue) \in Nat /\ Len(pendingQueue) <= FedTo /\ pendingQueue \in Seq(Nat)
  BY <1>0, SharedAssumption, LenProperties DEF FlowType, Samples, End
<1>2. FedTo \in Nat /\ FedTo <= End  BY <1>1 DEF FedTo
<1>3. TakenTo = FedTo - Len(pendingQueue) /\ TakenTo \in Nat /\ TakenTo <= End  BY <1>1, <1>2 DEF TakenTo
<1>4. CASE FeedPut
  <2>1. FedTo' = FedTo + 1
    <3>1. CASE pc["feed"] = "put" /\ globalSteps < TotalSteps
      <4>1. globalSteps' = globalSteps + 1 /\ pc'["feed"] = "put"
        BY <1>0, <1>1, <1>4, <3>1 DEF FeedPut, SyncType, Names, LastStep
      <4>2. FedTo = globalSteps - 1 /\ FedTo' = globalSteps' - 1  BY <3>1, <4>1 DEF FedTo
      <4> QED  BY <1>1, <4>1, <4>2
    <3>2. CASE pc["feed"] = "put" /\ globalSteps = TotalSteps
      <4>1. globalSteps' = globalSteps /\ pc'["feed"] = "putDone"
        BY <1>0, <1>1, <1>4, <3>2 DEF FeedPut, SyncType, Names, LastStep
      <4>2. FedTo = globalSteps - 1 /\ FedTo' = TotalSteps  BY <3>2, <4>1 DEF FedTo
      <4> QED  BY <1>1, <3>2, <4>2
    <3>3. CASE pc["feed"] = "putDone"
      <4>1. pc'["feed"] = "done"  BY <1>0, <1>4, <3>3 DEF FeedPut, SyncType, Names
      <4>2. FedTo = TotalSteps /\ FedTo' = End  BY <3>3, <4>1 DEF FedTo, End
      <4> QED  BY <1>1, <4>2
    <3> QED  BY <1>1, <1>4, <3>1, <3>2, <3>3 DEF FeedPut
  <2>2. PICK x : pendingQueue' = Append(pendingQueue, x) /\ x \in Nat
    BY <1>1, <1>4 DEF FeedPut
  <2>3. Len(pendingQueue') = Len(pendingQueue) + 1  BY <1>1, <2>2, AppendProperties
  <2>4. TakenTo' = FedTo' - Len(pendingQueue')  BY DEF TakenTo
  <2> QED  BY <1>1, <1>2, <1>3, <2>1, <2>3, <2>4
<1>5. CASE ProcTakes
  <2>1. /\ pendingQueue /= <<>> /\ pendingQueue' = Tail(pendingQueue) /\ globalSteps' = globalSteps
        /\ pc' = [pc EXCEPT !["proc"] = "loop", !["feed"] = FeedUnblocked(@)]
    BY <1>5 DEF ProcTakes
  <2>2. FedTo' = FedTo  BY <1>0, <2>1 DEF FedTo, SyncType, Names, FeedUnblocked
  <2>3. Len(pendingQueue') = Len(pendingQueue) - 1 /\ Len(pendingQueue) >= 1
        /\ Head(pendingQueue) = pendingQueue[1]
    BY <1>1, <2>1, HeadTailProperties, EmptySeq
  <2>4. TakenTo' = FedTo' - Len(pendingQueue')  BY DEF TakenTo
  <2>5. pendingQueue[1] = TakenTo + 1
    <3>1. \A i \in 1 .. Len(pendingQueue) : pendingQueue[i] = TakenTo + i  BY <1>0 DEF FlowType
    <3>2. 1 \in 1 .. Len(pendingQueue)  BY <1>1, <2>3
    <3> QED  BY <3>1, <3>2
  <2> QED  BY <1>1, <1>2, <1>3, <1>5, <2>2, <2>3, <2>4, <2>5
<1>6. CASE ~FeedPut /\ ~ProcTakes
  <2>1. pendingQueue' = pendingQueue /\ globalSteps' = globalSteps  BY <1>0, <1>6 DEF Written
  <2>2. FedTo' = FedTo
    <3>1. CASE pc'["feed"] = pc["feed"]  BY <2>1, <3>1 DEF FedTo
    <3>2. CASE MainStart
      <4>1. pc["feed"] = "none" /\ pc'["feed"] = "put"
        BY <1>0, <3>2 DEF MainStart, SyncInv, Begun, SyncType, Names
      <4> QED  BY <2>1, <4>1 DEF FedTo
    <3>3. CASE FeedBlocks
      <4>1. \/ pc["feed"] = "put" /\ pc'["feed"] = "full"
            \/ pc["feed"] = "putDone" /\ pc'["feed"] = "fullDone"
        BY <1>0, <3>3 DEF FeedBlocks, Goto, SyncType, Names
      <4> QED  BY <2>1, <4>1 DEF FedTo
    <3> QED  BY <1>0, <1>6, <3>1, <3>2, <3>3 DEF Moved
  <2>3. TakenTo' = FedTo' - Len(pendingQueue')  BY DEF TakenTo
  <2> QED  BY <1>3, <2>1, <2>2, <2>3
<1> QED  BY <1>3, <1>4, <1>5, <1>6

LEMMA InitRollout == Init => RolloutInv
<1> SUFFICES ASSUME Init PROVE RolloutInv  OBVIOUS
<1>1. pc["feed"] = "none" /\ pc["proc"] = "none" /\ pc["update"] = "none" /\ globalSteps = 1
      /\ pendingQueue = <<>> /\ stalenessSamples = 0 /\ rolloutVersion = 0
  BY DEF Init, RolloutInit, Names
<1>2. TakenTo = 0 /\ Counted = 0  BY <1>1, EmptySeq DEF TakenTo, FedTo, Counted
<1> QED  BY <1>1, <1>2, Sizes DEF RolloutInv

\* The updates.
LEMMA NextCounted ==
  ASSUME AsyncInv, Counted \in Nat, [Next]_vars
  PROVE  \/ Counted' = Counted /\ ~UpdateResets
         \/ UpdateResets /\ Counted' = Counted + 1 /\ pc'["proc"] = pc["proc"] /\ Counted + 1 = rolloutVersion
<1>0. Written /\ Moved /\ SyncType  BY Frames DEF AsyncInv, SyncInv
<1>1. rolloutVersion \in Nat  BY <1>0 DEF SyncType
<1>2. CASE UpdateLocked
  <2>1. rolloutVersion' = mqVersion /\ pc["update"] = "locked" /\ pc'["update"] = "sizing"
    BY <1>0, <1>2 DEF UpdateLocked, Goto, SyncType, Names
  <2>2. mqVersion = rolloutVersion + 1  BY <2>1 DEF AsyncInv, SyncInv, VersionsAt, Untold
  <2>3. ~UpdateResets  BY <2>1 DEF UpdateResets
  <2> QED  BY <1>1, <2>1, <2>2, <2>3 DEF Counted
<1>3. CASE UpdateResets
  <2>1. UNCHANGED <<rolloutVersion>> /\ pc["update"] = "sized" /\ pc' = [pc EXCEPT !["update"] = "reporting"]
    BY <1>3 DEF UpdateResets, Goto
  <2>2. pc'["update"] = "reporting" /\ pc'["proc"] = pc["proc"]  BY <1>0, <2>1 DEF SyncType, Names
  <2> QED  BY <1>1, <1>3, <2>1, <2>2 DEF Counted
<1>4. CASE ~UpdateLocked /\ ~UpdateResets
  <2>1. rolloutVersion' = rolloutVersion  BY <1>0, <1>4 DEF Written
  <2>2. pc'["update"] \in {"sizing", "sized"} <=> pc["update"] \in {"sizing", "sized"}
    <3>1. CASE pc'["update"] = pc["update"]  BY <3>1
    <3>2. CASE UpdateSteps
      BY <1>0, <1>4, <3>2 DEF UpdateSteps, QueueSizeAnswers, ValidationArrives, UpdateReturns, Goto, SyncType, Names
    <3>3. CASE CallArrives("update") \/ CallAcquires("update")
      <4>1. pc["update"] \in {"none", "start"} /\ pc'["update"] \in {"start", "locked"}
        BY <1>0, <3>3 DEF CallArrives, CallAcquires, Goto, SyncType, Names, AsyncInv, SyncInv, CallsInOrder, Calls
      <4> QED  BY <4>1
    <3> QED  BY <1>0, <3>1, <3>2, <3>3 DEF Moved
  <2> QED  BY <1>4, <2>1, <2>2 DEF Counted
<1> QED  BY <1>2, <1>3, <1>4

\* Only a processor that finds pending_queue empty comes to wait for it.
LEMMA AwaitsSample ==
  ASSUME SyncInv, [Next]_vars, pc'["proc"] \in {"getting", "takes"}, pc["proc"] \notin {"getting", "takes"}
  PROVE  ProcAwaitsSample
<1>0. Moved /\ SyncType  BY Frames DEF SyncInv
<1>1. ~MainStart /\ ~FeedPut /\ ~ResumeReturns /\ ~MonitorUnpauses /\ ~\E s \in Samples : TaskEnds(s)
  BY <1>0 DEF MainStart, FeedPut, ResumeReturns, MonitorUnpauses, Notified, TaskEnds, PcAfterTaskEnd,
              SyncType, Names
<1>2. Processor  BY <1>0, <1>1 DEF Moved
<1> QED
  BY <1>0, <1>2 DEF Processor, ProcPauses, ProcSetsPaused, ProcTakesCancelled, ProcTakes,
     ProcLoopEnds, ProcLoopAcquires, ProcWaits, ProcSkipsWait, ProcReaps, ProcIdles, ProcHoldsBack, ProcSubmits,
     ProcNotified, Goto, EndWorker, SyncType, Names

LEMMA NextRollout ==
  ASSUME AsyncInv, CountInv, RolloutInv, MaxRequiredSamples = SamplesPerSync, [Next]_vars
  PROVE  RolloutInv'
<1>0. Written /\ Moved /\ SyncInv /\ SyncType /\ FlowInv  BY Frames DEF AsyncInv, SyncInv
<1>1. /\ TakenTo \in Nat
      /\ TakenTo' = TakenTo \/ (ProcTakes /\ TakenTo' = TakenTo + 1)
  BY <1>0, NextTaken
<1>2. \/ Counted' = Counted /\ ~UpdateResets
      \/ UpdateResets /\ Counted' = Counted + 1 /\ pc'["proc"] = pc["proc"]
  BY NextCounted DEF RolloutInv
<1>3. Counted \in Nat /\ stalenessSamples \in Nat /\ snapshot \in Nat  BY DEF RolloutInv, CountInv
<1> DEFINE P(v) == SamplesPerSync * v
<1>4. \A v \in Nat : P(v) \in Nat /\ P(v + 1) = P(v) + SamplesPerSync  BY Sizes
<1>5. /\ TakenTo <= P(Counted) + stalenessSamples
      /\ TakenTo <= P(Counted + 1)
      /\ pc["proc"] \in {"getting", "takes"} => TakenTo < P(Counted + 1)
  BY DEF RolloutInv
<1>6. SamplesPerSync \in Nat \ {0}  BY Sizes
<1> SUFFICES /\ Counted' \in Nat
             /\ TakenTo' <= P(Counted') + stalenessSamples'
             /\ TakenTo' <= P(Counted' + 1)
             /\ pc'["proc"] \in {"getting", "takes"} => TakenTo' < P(Counted' + 1)
  BY DEF RolloutInv
<1> HIDE DEF P
<1>7. CASE UpdateResets
  <2>1. stalenessSamples' = snapshot /\ ~ProcTakes
    BY <1>0, <1>7 DEF UpdateResets, ProcTakes, Runs, Co
  <2>2. TakenTo' = TakenTo /\ Counted' = Counted + 1 /\ pc'["proc"] = pc["proc"]  BY <1>1, <1>2, <1>7, <2>1
  <2>3. P(Counted + 1) \in Nat /\ P(Counted + 1 + 1) = P(Counted + 1) + SamplesPerSync  BY <1>3, <1>4
  <2> QED  BY <1>1, <1>3, <1>5, <1>6, <2>1, <2>2, <2>3
<1>8. CASE ProcTakes
  <2>1. Counted' = Counted /\ stalenessSamples' = stalenessSamples + 1 /\ pc'["proc"] = "loop"
    <3>1. Counted' = Counted  BY <1>2, <1>8 DEF ProcTakes, UpdateResets, Runs, Co
    <3> QED  BY <1>0, <1>8, <3>1 DEF ProcTakes, SyncType, Names
  <2>2. \/ pc["proc"] = "top" /\ ~ShouldPause
        \/ pc["proc"] = "takes"
    BY <1>8 DEF ProcTakes
  <2>3. ~ShouldPause => stalenessSamples < SamplesPerSync
    BY <1>3, <1>6 DEF ShouldPause
  <2>4. TakenTo + 1 <= P(Counted + 1)  BY <1>1, <1>3, <1>4, <1>5, <1>6, <2>2, <2>3
  <2>5. P(Counted) \in Nat /\ P(Counted + 1) \in Nat /\ (TakenTo' = TakenTo \/ TakenTo' = TakenTo + 1)
    BY <1>1, <1>3, <1>4
  <2> QED  BY <1>1, <1>3, <1>5, <2>1, <2>4, <2>5
<1>9. CASE ~UpdateResets /\ ~ProcTakes
  <2>1. TakenTo' = TakenTo /\ Counted' = Counted /\ stalenessSamples' = stalenessSamples
    BY <1>0, <1>1, <1>2, <1>9 DEF Written
  <2>2. ASSUME pc'["proc"] \in {"getting", "takes"}, pc["proc"] \notin {"getting", "takes"}
        PROVE  TakenTo < P(Counted + 1)
    <3>1. ProcAwaitsSample  BY <1>0, <2>2, AwaitsSample
    <3>2. stalenessSamples < SamplesPerSync
      BY <1>3, <1>6, <3>1 DEF ProcAwaitsSample, ShouldPause
    <3> QED  BY <1>1, <1>3, <1>4, <1>5, <1>6, <3>2
  <2> QED  BY <1>3, <1>5, <2>1, <2>2
<1> QED  BY <1>7, <1>8, <1>9

\* A sample comes to the message queue from its task.
LEMMA NextQueued ==
  ASSUME SyncInv, FlowInv, [Next]_vars, NEW s \in Samples, In(queue', s)
  PROVE  In(queue, s) \/ PutArrives(s)
<1>0. Written /\ queue \in Seq(1 .. End)  BY Frames DEF SyncInv, FlowInv, FlowType
<1>1. CASE Collects
  <2>1. queue /= <<>> /\ queue' = Tail(queue)  BY <1>1, Collected DEF Collects
  <2>2. Once(queue, s)  BY DEF FlowInv, PlacedOnce
  <2> QED  BY <1>0, <2>1, <2>2, HeadLeaves
<1>2. CASE RunnerClears
  <2>1. queue' = <<>> \/ queue' = queue  BY <1>2 DEF RunnerClears, MQ!ClearQueue, mqVars
  <2>2. queue' = queue  BY <2>1 DEF In
  <2> QED  BY <2>2
<1>3. CASE FinishSignalArrives
  <2>1. End \in 1 .. End /\ s /= End  BY Sizes
  <2> QED  BY <1>3, <2>1, PutQueue DEF FinishSignalArrives
<1>4. ASSUME NEW t \in Samples, PutArrives(t) PROVE In(queue, s) \/ PutArrives(s)
  <2>1. t \in 1 .. End  BY Sizes DEF Samples
  <2>2. In(queue, s) \/ s = t  BY <1>4, <2>1, PutQueue DEF PutArrives
  <2> QED  BY <1>4, <2>2
<1> QED  BY <1>0, <1>1, <1>2, <1>3, <1>4 DEF Written, Puts

\* When the trainer has been given as many samples as were taken, nothing is left.
LEMMA NothingLeft ==
  ASSUME FlowInv, TakenTo \in Nat, TakenTo <= Cardinality(Given), NEW s \in Samples
  PROVE  ~In(queue, s) /\ task[s] \in {"none", "put"} /\ s /= hand /\ ~In(cancelQueue, s)
<1> DEFINE T == {x \in Samples : x <= TakenTo}
<1>1. IsFiniteSet(1 .. TakenTo) /\ Cardinality(1 .. TakenTo) = TakenTo  BY FS_Interval, SMTT(60)
<1>2. Samples \subseteq Nat \ {0}  BY Sizes DEF Samples
<1>3. T \subseteq 1 .. TakenTo
  <2> SUFFICES ASSUME NEW x \in Samples, x <= TakenTo PROVE x \in 1 .. TakenTo  OBVIOUS
  <2> QED  BY <1>2
<1>4. IsFiniteSet(T) /\ Cardinality(T) <= TakenTo  BY <1>1, <1>3, FS_Subset
<1>5. Given \subseteq T
  <2> SUFFICES ASSUME NEW x \in Samples, x \in Trained PROVE x <= TakenTo  BY DEF Given, Trained
  <2>1. ~(x > TakenTo)  BY DEF FlowInv, PlacedOnce
  <2> QED  BY <1>2, <2>1
<1>6. Cardinality(Given) \in Nat /\ Cardinality(T) \in Nat  BY Finite DEF Given
<1>7. Given = T
  <2>1. Cardinality(Given) = Cardinality(T)
    <3>1. Cardinality(Given) <= Cardinality(T)  BY <1>4, <1>5, FS_Subset
    <3> QED  BY <1>4, <1>6, <3>1
  <2> QED  BY <1>4, <1>5, <2>1, FS_Subset
<1>8. CASE s <= TakenTo
  <2>1. s \in Trained  BY <1>7, <1>8 DEF Given, Trained
  <2> QED  BY <2>1 DEF FlowInv, PlacedOnce
<1>9. CASE s > TakenTo  BY <1>9 DEF FlowInv, PlacedOnce
<1> QED  BY <1>2, <1>8, <1>9

\* From the new version of the trainer to that of the rollouter nothing is left.
LEMMA LeftBehind ==
  ASSUME AsyncInv, CountInv, GivenInv, RolloutInv, TakenTo \in Nat, ~Ended, trainerVersion /= Counted
  PROVE  /\ TakenTo <= Cardinality(Given)
         /\ SamplesPerSync * (Counted + 1) <= Cardinality(Given)
         /\ SamplesPerSync <= stalenessSamples
<1>0. SyncInv /\ FlowInv  BY DEF AsyncInv
<1>1. trainerVersion \in Nat /\ rolloutVersion \in Nat /\ Counted \in Nat
      /\ rolloutVersion <= trainerVersion /\ Counted <= rolloutVersion
  <2>1. rolloutVersion <= trainerVersion  BY <1>0 DEF SyncInv, SyncType, VersionsAt
  <2> QED  BY <1>0, <2>1 DEF SyncInv, SyncType, RolloutInv, Counted
<1>2. Counted + 1 <= trainerVersion  BY <1>1
<1>3. SamplesPerSync * (Counted + 1) <= SamplesPerSync * trainerVersion  BY <1>1, <1>2, Sizes
<1>4. SamplesPerSync * trainerVersion <= Cardinality(Given)  BY <1>0, GivenUpTo
<1>5. /\ SamplesPerSync * (Counted + 1) = SamplesPerSync * Counted + SamplesPerSync
      /\ {SamplesPerSync * (Counted + 1), SamplesPerSync * Counted, SamplesPerSync * trainerVersion} \subseteq Nat
  BY <1>1, Sizes
<1>6. Cardinality(Given) \in Nat  BY Finite DEF Given
<1>7. TakenTo <= SamplesPerSync * (Counted + 1)  BY DEF RolloutInv
<1>8. SamplesPerSync * (Counted + 1) <= Cardinality(Given) /\ TakenTo <= Cardinality(Given)
  BY <1>3, <1>4, <1>5, <1>6, <1>7
<1>9. Cardinality(Given) <= TakenTo
  <2>1. IsFiniteSet(1 .. TakenTo) /\ Cardinality(1 .. TakenTo) = TakenTo  BY FS_Interval, SMTT(60)
  <2>2. Given \subseteq 1 .. TakenTo
    BY <1>0, Sizes DEF Given, FlowInv, PlacedOnce, Trained, Samples
  <2> QED  BY <2>1, <2>2, FS_Subset
<1>10. TakenTo <= SamplesPerSync * Counted + stalenessSamples  BY DEF RolloutInv
<1>11. stalenessSamples \in Nat  BY DEF CountInv
<1> QED  BY <1>5, <1>6, <1>8, <1>9, <1>10, <1>11, Sizes

LEMMA InitPolicy == Init => PolicyInv
BY DEF Init, RolloutInit, SharedInit, TrainInit, PolicyInv, In

LEMMA NextPolicy ==
  ASSUME AsyncInv, CountInv, GivenInv, GivenInv', GatherInv, RolloutInv, PolicyInv, [Next]_vars
  PROVE  PolicyInv'
<1>0. Written /\ Moved /\ SyncInv /\ SyncType /\ FlowInv  BY Frames DEF AsyncInv, SyncInv
<1>1. TakenTo \in Nat  BY <1>0, NextTaken
<1>2. ~Ended /\ trainerVersion /= rolloutVersion =>
        \A s \in Samples : ~In(queue, s) /\ task[s] \in {"none", "put"}
  <2>1. ~Ended /\ trainerVersion /= rolloutVersion => trainerVersion /= Counted
    BY <1>0 DEF Counted, SyncType, SyncInv, VersionsAt, RolloutInv
  <2> QED  BY <1>0, <1>1, <2>1, LeftBehind, NothingLeft
<1>3. ~Ended' => ~Ended
  <2>1. CASE Collects
    <3>1. End \in Trained => End \in Trained'  BY <1>0, <2>1, Collected DEF Collects
    <3> QED  BY <3>1 DEF GivenInv
  <2>2. CASE got' = got  BY <2>2 DEF GivenInv, Trained
  <2> QED  BY <1>0, <2>1, <2>2 DEF Written
<1>4. \A s \in Samples : TaskMoves(s)  BY <1>0, NextTask
<1>5. \A s \in Samples : In(queue', s) => In(queue, s) \/ PutArrives(s)  BY <1>0, NextQueued
<1>6. ASSUME ~Ended', NEW s \in Samples, task'[s] = "putting" \/ In(queue', s)
      PROVE  sampleVersion'[s] = rolloutVersion'
  <2>1. CASE TaskCompletes(s)
    <3>1. sampleVersion' = [sampleVersion EXCEPT ![s] = rolloutVersion] /\ rolloutVersion' = rolloutVersion
      BY <2>1 DEF TaskCompletes, restVars
    <3> QED  BY <3>1 DEF GatherInv
  <2>2. CASE ~TaskCompletes(s)
    <3>1. task[s] = "putting" \/ In(queue, s)
      BY <1>4, <1>5, <1>6, <2>2 DEF TaskMoves, PutArrives
    <3>2. sampleVersion'[s] = sampleVersion[s]
      <4>1. ASSUME NEW t \in Samples, TaskCompletes(t) PROVE sampleVersion'[s] = sampleVersion[s]
        BY <2>2, <4>1 DEF TaskCompletes, GatherInv
      <4> QED  BY <1>0, <4>1 DEF Written
    <3>3. trainerVersion = rolloutVersion  BY <1>2, <1>3, <1>6, <3>1
    <3>4. rolloutVersion' = rolloutVersion
      <4>1. ~UpdateLocked
        <5>1. UpdateLocked => mqVersion = rolloutVersion + 1
          BY <1>0 DEF UpdateLocked, SyncInv, VersionsAt, Untold
        <5> QED  BY <1>0, <3>3, <5>1 DEF SyncInv, VersionsAt, SyncType
      <4> QED  BY <1>0, <4>1 DEF Written
    <3> QED  BY <1>3, <1>6, <3>1, <3>2, <3>4 DEF PolicyInv
  <2> QED  BY <2>1, <2>2
<1>7. ASSUME NEW s \in batch' PROVE sampleVersion'[s] = trainerVersion'
  <2>1. CASE Collects
    <3>1. /\ tpc = "collect" /\ UNCHANGED <<sampleVersion, trainerVersion>>
          /\ batch' = {} \/ batch' = batch \union {Head(queue)}
          /\ batch' /= {} => Head(queue) /= End
      BY <2>1 DEF Collects, Collect, stepVars, rolloutVars, flowVars
    <3>2. CASE s \in batch  BY <3>1, <3>2 DEF PolicyInv
    <3>3. CASE s \notin batch
      <4>1. s = Head(queue) /\ s \in Samples /\ queue /= <<>> /\ queue \in Seq(1 .. End)
        BY <1>0, <1>7, <2>1, <3>1, <3>3, Collected DEF Collects, FlowInv, FlowType
      <4>2. In(queue, s)  BY <4>1, HeadLeaves
      <4>3. ~Ended  BY <3>1 DEF Ended
      <4>4. trainerVersion = rolloutVersion  BY <1>2, <4>1, <4>2, <4>3
      <4> QED  BY <3>1, <4>1, <4>2, <4>3, <4>4 DEF PolicyInv
    <3> QED  BY <3>2, <3>3
  <2>2. CASE ~Collects
    <3>1. s \in batch /\ trainerVersion' = trainerVersion
      <4>1. CASE UNCHANGED trainVars  BY <1>7, <4>1 DEF trainVars, stepVars
      <4>2. CASE TrainNext /\ UNCHANGED rolloutVars
        <5>1. ~Collect  BY <2>2, <4>2 DEF Collects
        <5>2. ~TrainStep  BY <1>7 DEF TrainStep
        <5>3. batch' = batch /\ (trainerVersion' = trainerVersion \/ DecideExtraSync)
          BY <4>2, <5>1, <5>2 DEF TrainNext, LogValidation, CollectWaits, SyncPauses, SyncVersions, SyncTransfers,
                                SaveCheckpoint, LastWait, DecideExtraSync, trainVars, stepVars
        <5>4. ~DecideExtraSync  BY <1>7, <5>3 DEF DecideExtraSync, GivenInv
        <5> QED  BY <1>7, <5>3, <5>4
      <4> QED  BY <1>0, <4>1, <4>2 DEF Written
    <3>2. sampleVersion'[s] = sampleVersion[s]
      <4>1. s \in Trained /\ s \in Samples  BY <3>1 DEF GivenInv, Given, Trained
      <4>2. ASSUME NEW t \in Samples, TaskCompletes(t) PROVE sampleVersion'[s] = sampleVersion[s]
        <5>1. task[s] \in {"none", "put"}  BY <1>0, <4>1 DEF FlowInv, PlacedOnce
        <5>2. s /= t  BY <4>2, <5>1 DEF TaskCompletes
        <5> QED  BY <4>2, <5>2, <4>1 DEF TaskCompletes, GatherInv
      <4> QED  BY <1>0, <4>2 DEF Written
    <3> QED  BY <3>1, <3>2 DEF PolicyInv
  <2> QED  BY <2>1, <2>2
<1> QED  BY <1>6, <1>7 DEF PolicyInv
-----------------------------------------------------------------------------
(* Paused from pause() to update_param_version().                          *)

\* What a step does with the lock.
LockMoves ==
  \/ LockUnchanged
  \/ Release
  \/ \E n \in Names : Runs(Co(n)) /\ Acquire(Co(n))

LEMMA NextLock ==
  ASSUME [Next]_vars
  PROVE  LockMoves
<1> USE DEF LockMoves, LockUnchanged, Names, Calls
<1>1. CASE Rollout
  <2>1. LoopStep \/ Arrival \/ MonitorTimer  BY <1>1 DEF Rollout, RolloutNext
  <2>2. CASE MainStart \/ MainWoken \/ MainAcquires \/ MainStops \/ FeedPut \/ FeedBlocks
    BY <2>2 DEF MainStart, MainWoken, MainAcquires, MainStops, FeedPut, FeedBlocks
  <2>3. CASE Processor
    <3>1. CASE \/ ProcPauses \/ ProcSetsPaused \/ ProcTakesCancelled \/ ProcTakes \/ ProcAwaitsSample \/ ProcLoopEnds
               \/ ProcLoopAcquires
      BY <3>1 DEF ProcPauses, ProcSetsPaused, ProcTakesCancelled, ProcTakes, ProcAwaitsSample, ProcLoopEnds,
                  ProcLoopAcquires
    <3>2. CASE \/ ProcWaits \/ ProcSkipsWait \/ ProcReaps \/ ProcIdles \/ ProcHoldsBack \/ ProcSubmits \/ ProcNotified
      BY <3>2 DEF ProcWaits, ProcSkipsWait, ProcReaps, ProcIdles, ProcHoldsBack, ProcSubmits, ProcNotified
    <3> QED  BY <2>3, <3>1, <3>2 DEF Processor
  <2>4. CASE Monitor \/ MonitorTimer
    BY <2>4 DEF Monitor, MonitorAcquires, MonitorChecks, MonitorDecides, MonitorUnpauses, MonitorTimer
  <2>5. CASE \E s \in Samples : TaskStarts(s) \/ TaskCompletes(s) \/ TaskEnds(s) \/ Generation(s)
    BY <2>5 DEF TaskStarts, TaskCompletes, TaskEnds, Generation, ServerAccepts, GenerationEnds, PutArrives, loopVars
  <2>6. CASE \E c \in Calls : CallArrives(c) \/ CallAcquires(c)
    BY <2>6 DEF CallArrives, CallAcquires
  <2>7. CASE PauseSteps
    BY <2>7 DEF PauseSteps, PauseLocked, ServersCancel, PauseGathers, PauseGathered, ServersReset, PauseReturns
  <2>8. CASE UpdateSteps \/ ResumeSteps
    BY <2>8 DEF UpdateSteps, UpdateLocked, QueueSizeAnswers, UpdateResets, ValidationArrives, UpdateReturns,
                ResumeSteps, ResumeLocked, ServersResume, ResumeReturns
  <2>9. CASE FinishSignalArrives  BY <2>9 DEF FinishSignalArrives
  <2>10. LoopStep => \/ MainStart \/ MainWoken \/ MainAcquires \/ MainStops \/ FeedPut \/ FeedBlocks
                     \/ Processor \/ Monitor
                     \/ \E s \in Samples : TaskStarts(s) \/ TaskCompletes(s) \/ TaskEnds(s)
                     \/ \E c \in Calls : CallAcquires(c)
                     \/ PauseSteps \/ UpdateSteps \/ ResumeSteps
    BY DEF LoopStep, PauseSteps, UpdateSteps, ResumeSteps
  <2>11. Arrival => \/ FinishSignalArrives \/ \E s \in Samples : Generation(s)
                    \/ \E c \in Calls : CallArrives(c)
                    \/ PauseSteps \/ UpdateSteps \/ ResumeSteps
    BY DEF Arrival, PauseSteps, UpdateSteps, ResumeSteps
  <2> QED  BY <2>1, <2>2, <2>3, <2>4, <2>5, <2>6, <2>7, <2>8, <2>9, <2>10, <2>11
<1>2. CASE Train \/ RunnerClears \/ UNCHANGED vars
  BY <1>2 DEF Train, RunnerClears, vars, rolloutVars, loopVars
<1> QED  BY <1>1, <1>2 DEF Next, Terminated

LEMMA InitOver == Init => OverInv
BY DEF Init, RolloutInit, SharedInit, OverInv, Names, In, Trained

LEMMA StaysOver ==
  ASSUME SyncInv, [Next]_vars, ProcOver
  PROVE  pc'["proc"] = pc["proc"]
<1>0. Moved /\ SyncType /\ Begun  BY Frames DEF SyncInv
<1>1. ~Processor
  BY DEF ProcOver, Processor, ProcPauses, ProcSetsPaused, ProcTakesCancelled, ProcTakes, ProcAwaitsSample,
         ProcLoopEnds, ProcLoopAcquires, ProcWaits, ProcSkipsWait, ProcReaps, ProcIdles, ProcHoldsBack, ProcSubmits,
         ProcNotified
<1>2. CASE MainStart  BY <1>0, <1>2 DEF MainStart, Begun, ProcOver
<1>3. CASE FeedPut  BY <1>0, <1>3 DEF FeedPut, ProcOver, SyncType, Names
<1>4. CASE ResumeReturns \/ MonitorUnpauses
  BY <1>0, <1>4 DEF ResumeReturns, MonitorUnpauses, Notified, ProcOver, SyncType, Names
<1>5. CASE \E s \in Samples : TaskEnds(s)
  BY <1>0, <1>5 DEF TaskEnds, PcAfterTaskEnd, ProcOver, SyncType, Names
<1> QED  BY <1>0, <1>1, <1>2, <1>3, <1>4, <1>5 DEF Moved

LEMMA NextOver ==
  ASSUME AsyncInv, OverInv, [Next]_vars
  PROVE  OverInv'
<1>0. Written /\ Moved /\ SyncInv /\ SyncType /\ FlowInv /\ queue \in Seq(1 .. End)
  BY Frames DEF AsyncInv, SyncInv, FlowInv, FlowType
<1>1. ProcOver => ProcOver'  BY <1>0, StaysOver DEF ProcOver
<1>2. ASSUME pc'["main"] \in {"sending", "sent", "stop", "done"} PROVE ProcOver'
  <2>1. CASE pc["main"] \in {"sending", "sent", "stop", "done"}  BY <1>1, <2>1 DEF OverInv
  <2>2. CASE pc["main"] \notin {"sending", "sent", "stop", "done"}
    <3>1. MainWoken
      <4>1. ~MainStart /\ ~MainAcquires /\ ~MainStops /\ ~FinishSignalArrives
        BY <1>0, <1>2, <2>2 DEF MainStart, MainAcquires, MainStops, FinishSignalArrives, Goto, SyncType, Names
      <4>2. ~FeedPut /\ ~ProcLoopEnds /\ ~ProcSkipsWait /\ ~ProcReaps
        BY <1>0, <1>2, <2>2 DEF FeedPut, ProcLoopEnds, ProcSkipsWait, ProcReaps, EndWorker, Goto, SyncType, Names
      <4> QED  BY <1>0, <1>2, <2>2, <4>1, <4>2 DEF Moved
    <3>2. ProcOver  BY <1>0, <1>2, <3>1 DEF MainWoken, Goto, SyncType, Names
    <3> QED  BY <1>1, <3>2
  <2> QED  BY <2>1, <2>2
<1>3. pc["main"] \in {"sent", "stop", "done"} => pc'["main"] \in {"sent", "stop", "done"}
  <2> SUFFICES ASSUME pc["main"] \in {"sent", "stop", "done"} PROVE pc'["main"] \in {"sent", "stop", "done"}
    OBVIOUS
  <2>1. CASE MainStart \/ MainWoken \/ MainAcquires \/ MainStops \/ FinishSignalArrives
    BY <1>0, <2>1 DEF MainStart, MainWoken, MainAcquires, MainStops, FinishSignalArrives, Goto, SyncType, Names
  <2>2. CASE FeedPut \/ ProcLoopEnds \/ ProcSkipsWait \/ ProcReaps
    BY <1>0, <2>2 DEF FeedPut, ProcLoopEnds, ProcSkipsWait, ProcReaps, EndWorker, Goto, SyncType, Names
  <2> QED  BY <1>0, <2>1, <2>2 DEF Moved
<1>4. In(queue', End) \/ End \in Trained' =>
        In(queue, End) \/ End \in Trained \/ pc'["main"] \in {"sent", "stop", "done"}
  <2>1. CASE Collects
    <3>1. queue /= <<>> /\ queue' = Tail(queue) /\ Trained' = Trained \union {Head(queue)}
      BY <1>0, <2>1, Collected DEF Collects
    <3>2. In(queue, Head(queue)) /\ (In(Tail(queue), End) => In(queue, End))
      <4>1. /\ Head(queue) = queue[1] /\ Len(Tail(queue)) = Len(queue) - 1 /\ Len(queue) \in Nat /\ Len(queue) >= 1
            /\ \A i \in 1 .. Len(queue) - 1 : Tail(queue)[i] = queue[i + 1]
        BY <1>0, <3>1, HeadTailProperties, EmptySeq, LenProperties
      <4>2. \A i \in 1 .. Len(queue) - 1 : i + 1 \in 1 .. Len(queue)  BY <4>1
      <4>3. 1 \in 1 .. Len(queue)  BY <4>1
      <4> QED  BY <4>1, <4>2, <4>3 DEF In
    <3> QED  BY <3>1, <3>2
  <2>2. CASE RunnerClears
    <3>1. (queue' = <<>> \/ queue' = queue) /\ got' = got
      BY <2>2 DEF RunnerClears, MQ!ClearQueue, mqVars
    <3> QED  BY <3>1 DEF In, Trained
  <2>3. CASE FinishSignalArrives
    BY <1>0, <2>3 DEF FinishSignalArrives, Goto, SyncType, Names
  <2>4. ASSUME NEW t \in Samples, PutArrives(t) PROVE In(queue', End) \/ End \in Trained' => In(queue, End) \/ End \in Trained
    <3>1. t \in 1 .. End /\ t /= End /\ MQ!PutSample(t)  BY <2>4, Sizes DEF Samples, PutArrives
    <3>2. got' = got /\ queue' = Append(IF MQ!Full THEN Tail(queue) ELSE queue, t) /\ MaxRequiredSamples \in Nat \ {0}
      BY <3>1, Sizes DEF MQ!PutSample
    <3> DEFINE kept == IF MQ!Full THEN Tail(queue) ELSE queue
    <3>3. kept \in Seq(1 .. End) /\ (In(kept, End) => In(queue, End))
      <4>1. CASE MQ!Full
        <5>1. queue /= <<>>  BY <1>0, <3>2, <4>1, EmptySeq DEF MQ!Full
        <5>2. /\ Tail(queue) \in Seq(1 .. End) /\ Len(Tail(queue)) = Len(queue) - 1 /\ Len(queue) \in Nat
              /\ \A i \in 1 .. Len(queue) - 1 : Tail(queue)[i] = queue[i + 1]
          BY <1>0, <5>1, HeadTailProperties, LenProperties
        <5>3. \A i \in 1 .. Len(queue) - 1 : i + 1 \in 1 .. Len(queue)  BY <5>2
        <5> QED  BY <4>1, <5>2, <5>3 DEF In
      <4>2. CASE ~MQ!Full  BY <1>0, <4>2
      <4> QED  BY <4>1, <4>2
    <3> HIDE DEF kept
    <3>4. In(Append(kept, t), End) => In(kept, End)
      <4> DEFINE T == 1 .. End
      <4>1. kept \in Seq(T) /\ t \in T  BY <3>1, <3>3
      <4> HIDE DEF T
      <4>2. In(Append(kept, t), End) <=> In(kept, End) \/ t = End  BY ONLY <4>1, Appended
      <4> QED  BY ONLY <3>1, <4>2
    <3> QED  BY <3>2, <3>3, <3>4 DEF Trained, kept
  <2>5. CASE queue' = queue /\ got' = got  BY <2>5 DEF Trained
  <2>6. \/ Collects \/ RunnerClears \/ FinishSignalArrives \/ \E t \in Samples : PutArrives(t)
        \/ queue' = queue /\ got' = got
    BY <1>0 DEF Written, Puts
  <2> QED  BY <2>1, <2>2, <2>3, <2>4, <2>5, <2>6
<1> QED  BY <1>2, <1>3, <1>4 DEF OverInv

LEMMA InitPause == Init => PauseInv
BY DEF Init, RolloutInit, SharedInit, PauseInv, InPause, Names, Calls

\* Nobody overtakes in the lock's queue.
LEMMA StaysAhead ==
  ASSUME LockInv, LockInv', MonitorAhead, LockMoves, pc["monitor"] = "unpause", pc'["monitor"] = "unpause"
  PROVE  MonitorAhead'
<1> DEFINE m == Co("monitor")
           p == Co("pause")
<1>0. PICK n \in Names : n = "monitor"  BY DEF Names
<1>1. lockQueue \in Seq({Co(k) : k \in Names}) /\ Len(lockQueue) \in Nat  BY LenProperties DEF LockInv
<1>2. CASE LockUnchanged  BY <1>2 DEF LockUnchanged, MonitorAhead
<1>3. CASE Release
  <2>1. holder /= m
    <3>1. holder = m => holder' = m \/ In(lockQueue', m)  BY <1>0 DEF LockInv, Holding, Entering
    <3>2. In(lockQueue', m) => In(lockQueue, m)
      <4>1. CASE lockQueue = <<>>  BY <1>3, <4>1 DEF Release, In
      <4>2. CASE lockQueue /= <<>>
        <5>1. lockQueue' = Tail(lockQueue)  BY <1>3, <4>2 DEF Release
        <5>2. /\ Len(Tail(lockQueue)) = Len(lockQueue) - 1
              /\ \A i \in 1 .. Len(lockQueue) - 1 : Tail(lockQueue)[i] = lockQueue[i + 1]
          BY <1>1, <4>2, HeadTailProperties
        <5>3. \A i \in 1 .. Len(lockQueue) - 1 : i + 1 \in 1 .. Len(lockQueue)  BY <1>1
        <5> QED  BY <5>1, <5>2, <5>3 DEF In
      <4> QED  BY <4>1, <4>2
    <3>3. holder' = m => holder /= m
      <4>1. m /= Nobody  BY <1>0, Distinct
      <4>2. holder' = m => lockQueue /= <<>> /\ Head(lockQueue) = m  BY <1>3, <4>1 DEF Release
      <4>3. lockQueue /= <<>> => In(lockQueue, Head(lockQueue))  BY <1>1, HeadLeaves
      <4> QED  BY <1>0, <4>2, <4>3 DEF LockInv
    <3> QED  BY <1>0, <3>1, <3>2, <3>3 DEF LockInv
  <2>2. PICK i, j \in 1 .. Len(lockQueue) : i < j /\ lockQueue[i] = m /\ lockQueue[j] = p
    BY <2>1 DEF MonitorAhead
  <2>3. lockQueue /= <<>>  BY <2>2, EmptySeq
  <2>4. holder' = Head(lockQueue) /\ lockQueue' = Tail(lockQueue)  BY <1>3, <2>3 DEF Release
  <2>5. /\ Len(Tail(lockQueue)) = Len(lockQueue) - 1 /\ Head(lockQueue) = lockQueue[1]
        /\ \A k \in 1 .. Len(lockQueue) - 1 : Tail(lockQueue)[k] = lockQueue[k + 1]
    BY <1>1, <2>3, HeadTailProperties
  <2>6. CASE i = 1  BY <2>2, <2>4, <2>5, <2>6 DEF MonitorAhead
  <2>7. CASE i /= 1
    <3>1. i - 1 \in 1 .. Len(lockQueue') /\ j - 1 \in 1 .. Len(lockQueue') /\ i - 1 < j - 1
          /\ (i - 1) + 1 = i /\ (j - 1) + 1 = j /\ i - 1 \in 1 .. Len(lockQueue) - 1 /\ j - 1 \in 1 .. Len(lockQueue) - 1
      BY <1>1, <2>2, <2>4, <2>5, <2>7
    <3>2. lockQueue'[i - 1] = m /\ lockQueue'[j - 1] = p  BY <2>2, <2>4, <2>5, <3>1
    <3> QED  BY <3>1, <3>2 DEF MonitorAhead
  <2> QED  BY <2>6, <2>7
<1>4. ASSUME NEW k \in Names, Runs(Co(k)), Acquire(Co(k)) PROVE MonitorAhead'
  <2>1. CASE holder = Nobody
    <3>1. lockQueue = <<>>  BY <2>1 DEF LockInv
    <3>2. holder = m  BY <3>1, EmptySeq DEF MonitorAhead
    <3> QED  BY <1>0, <2>1, <3>2, Distinct
  <2>2. CASE holder /= Nobody
    <3>1. holder' = holder /\ lockQueue' = Append(lockQueue, Co(k))  BY <1>4, <2>2 DEF Acquire
    <3>2. /\ Len(lockQueue') = Len(lockQueue) + 1
          /\ \A i \in 1 .. Len(lockQueue) : lockQueue'[i] = lockQueue[i] /\ i \in 1 .. Len(lockQueue')
      BY <1>1, <3>1, AppendProperties
    <3> QED  BY <3>1, <3>2 DEF MonitorAhead
  <2> QED  BY <2>1, <2>2
<1> QED  BY <1>2, <1>3, <1>4 DEF LockMoves

LEMMA NextPause ==
  ASSUME AsyncInv, CountInv, GivenInv, GivenInv', RolloutInv, PauseInv, MaxRequiredSamples = SamplesPerSync,
         [Next]_vars
  PROVE  PauseInv'
<1>0. Written /\ Moved /\ SyncInv /\ SyncType /\ FlowInv /\ LockInv /\ CallsInOrder
  BY Frames DEF AsyncInv, SyncInv
<1>1. LockMoves /\ LockInv'  BY NextLock, NextAsync DEF AsyncInv
<1>2. TakenTo \in Nat  BY <1>0, NextTaken
<1>3. ~Ended' => ~Ended
  <2>1. CASE Collects
    <3>1. End \in Trained => End \in Trained'  BY <1>0, <2>1, Collected DEF Collects
    <3> QED  BY <3>1 DEF GivenInv
  <2>2. CASE got' = got  BY <2>2 DEF GivenInv, Trained
  <2> QED  BY <1>0, <2>1, <2>2 DEF Written
<1> SUFFICES ASSUME ~Ended'
             PROVE  /\ pc'["pause"] = "locked" /\ pc'["monitor"] = "unpause" => MonitorAhead'
                    /\ InPause' \/ rpc'["pause"] = "done" => paused' /\ pc'["monitor"] /= "unpause"
  BY DEF PauseInv
<1>4. ~Ended  BY <1>3
<1>5. PICK m \in Names : m = "monitor"  BY DEF Names
<1>6. PICK p \in Names : p = "pause"  BY DEF Names
<1> DEFINE Pausing == pc["pause"] /= "none" \/ rpc["pause"] = "done"
<1>7. Pausing => /\ trainerVersion /= Counted /\ rpc["resume"] /= "running" /\ pc["resume"] = "none"
                 /\ tpc \in {"pausing", "transfer"}
  <2> SUFFICES ASSUME Pausing PROVE trainerVersion /= Counted /\ rpc["resume"] /= "running" /\ pc["resume"] = "none"
                                    /\ tpc \in {"pausing", "transfer"}
    OBVIOUS
  <2>1. rpc["pause"] /= "idle"  BY <1>0 DEF CallsInOrder, Calls
  <2>2. tpc \in {"pausing", "transfer"} /\ LastSyncOver  BY <1>0, <2>1 DEF CallsInOrder
  <2>3. trainerVersion > rolloutVersion /\ rolloutVersion \in Nat
    BY <1>0, <2>2 DEF SyncInv, VersionsAt, Untold, SyncType
  <2>4. trainerVersion /= Counted  BY <2>3 DEF Counted, RolloutInv
  <2> QED  BY <1>0, <2>2, <2>4 DEF LastSyncOver, CallsInOrder, Calls
<1>8. Pausing => ShouldPause
  <2>1. Pausing => SamplesPerSync <= stalenessSamples  BY <1>2, <1>4, <1>7, LeftBehind
  <2> QED  BY <2>1 DEF ShouldPause
<1>9. pc'["monitor"] = "unpause" => pc["monitor"] = "unpause" \/ (MonitorDecides /\ ~ShouldPause)
  <2> SUFFICES ASSUME pc'["monitor"] = "unpause", pc["monitor"] /= "unpause" PROVE MonitorDecides /\ ~ShouldPause
    OBVIOUS
  <2>1. Monitor \/ MonitorTimer  BY <1>0 DEF Moved
  <2>2. MonitorDecides
    BY <1>0, <2>1 DEF Monitor, MonitorTimer, MonitorAcquires, MonitorChecks, MonitorUnpauses, Goto, SyncType, Names
  <2>3. ~ShouldPause  BY <1>0, <2>2 DEF MonitorDecides, Goto, SyncType, Names
  <2> QED  BY <2>2, <2>3
<1>10. pc["monitor"] = "unpause" => holder = Co(m) \/ In(lockQueue, Co(m))
  BY <1>0, <1>5 DEF LockInv, Holding, Entering
<1>11. ASSUME pc'["pause"] = "locked", pc'["monitor"] = "unpause" PROVE MonitorAhead'
  <2>1. CASE pc["pause"] = "locked"
    <3>1. pc["monitor"] = "unpause"  BY <1>8, <1>9, <1>11, <2>1
    <3>2. MonitorAhead  BY <1>4, <2>1, <3>1 DEF PauseInv
    <3> QED  BY <1>0, <1>1, <1>11, <3>1, <3>2, StaysAhead
  <2>2. CASE pc["pause"] /= "locked"
    <3>1. CallAcquires("pause")
      <4>1. ~PauseSteps
        BY <1>0, <1>11, <2>2 DEF PauseSteps, PauseLocked, ServersCancel, PauseGathers, PauseGathered, ServersReset,
                           PauseReturns, Goto, SyncType, Names
      <4>2. ~CallArrives("pause")  BY <1>0, <1>11, <2>2 DEF CallArrives, Goto, SyncType, Names
      <4>3. ~\E s \in Samples : TaskEnds(s)
        BY <1>0, <1>11, <2>2 DEF TaskEnds, PcAfterTaskEnd, SyncType, Names
      <4> QED  BY <1>0, <1>11, <2>2, <4>1, <4>2, <4>3 DEF Moved
    <3>2. pc["pause"] = "start" /\ Acquire(Co(p)) /\ pc'["monitor"] = pc["monitor"]
      BY <1>0, <1>6, <3>1 DEF CallAcquires, Goto, SyncType, Names
    <3>3. holder = Co(m) \/ In(lockQueue, Co(m))  BY <1>10, <1>11, <3>2
    <3>4. holder /= Nobody
      <4>1. In(lockQueue, Co(m)) => lockQueue /= <<>>  BY EmptySeq DEF In
      <4> QED  BY <1>0, <1>5, <3>3, <4>1, Distinct DEF LockInv
    <3>5. holder' = holder /\ lockQueue' = Append(lockQueue, Co(p))  BY <3>2, <3>4 DEF Acquire
    <3>6. lockQueue \in Seq({Co(k) : k \in Names}) /\ Len(lockQueue) \in Nat  BY <1>0, LenProperties DEF LockInv
    <3>7. /\ Len(lockQueue') = Len(lockQueue) + 1 /\ lockQueue'[Len(lockQueue) + 1] = Co(p)
          /\ \A i \in 1 .. Len(lockQueue) : lockQueue'[i] = lockQueue[i]
      BY <3>5, <3>6, AppendProperties
    <3>8. CASE holder = Co(m)  BY <1>5, <3>5, <3>8 DEF MonitorAhead
    <3>9. CASE In(lockQueue, Co(m))
      <4>1. PICK i \in 1 .. Len(lockQueue) : lockQueue[i] = Co(m)  BY <3>9 DEF In
      <4>2. i \in 1 .. Len(lockQueue') /\ Len(lockQueue) + 1 \in 1 .. Len(lockQueue') /\ i < Len(lockQueue) + 1
        BY <3>6, <3>7, <4>1
      <4>3. lockQueue'[i] = Co("monitor") /\ lockQueue'[Len(lockQueue) + 1] = Co("pause")
        BY <1>5, <1>6, <3>7, <4>1
      <4> QED  BY <4>2, <4>3 DEF MonitorAhead
    <3> QED  BY <3>3, <3>8, <3>9
  <2> QED  BY <2>1, <2>2
<1>12. ASSUME InPause' \/ rpc'["pause"] = "done" PROVE paused' /\ pc'["monitor"] /= "unpause"
  <2>1. CASE PauseLocked
    <3>1. Runs(Co(p)) /\ pc["pause"] = "locked" /\ paused' = TRUE /\ pc'["monitor"] = pc["monitor"]
      BY <1>0, <1>6, <2>1 DEF PauseLocked, Goto, SyncType, Names
    <3>2. holder = Co(p) /\ ~In(lockQueue, Co(p))
      BY <1>0, <1>6, <3>1, RunsAwake DEF Holding, Entering, Calls
    <3>3. ~MonitorAhead  BY <1>5, <1>6, <3>2, Distinct DEF MonitorAhead, In
    <3> QED  BY <1>4, <3>1, <3>3 DEF PauseInv
  <2>2. CASE ~PauseLocked
    <3>1. InPause \/ rpc["pause"] = "done"
      <4>1. CASE InPause'
        <5>1. CallArrives("pause") \/ CallAcquires("pause") => InPause
          BY <1>0, <4>1 DEF CallArrives, CallAcquires, Goto, SyncType, Names, InPause
        <5>2. (PauseSteps \/ \E s \in Samples : TaskEnds(s)) => InPause
          BY <1>0, <2>2, <4>1 DEF PauseSteps, ServersCancel, PauseGathers, PauseGathered, ServersReset, PauseReturns,
              TaskEnds, PcAfterTaskEnd, EndsGather, Goto, SyncType, Names, InPause
        <5> QED  BY <1>0, <4>1, <5>1, <5>2 DEF Moved, InPause
      <4>2. CASE rpc'["pause"] = "done" /\ rpc["pause"] /= "done"
        <5>1. ~SyncPauses /\ ~SyncTransfers /\ ~\E c \in Calls : CallArrives(c)
          BY <1>0, <4>2 DEF SyncPauses, SyncTransfers, CallArrives, SyncType, Calls
        <5>2. ~UpdateReturns /\ ~ResumeReturns
          BY <1>0, <4>2 DEF UpdateReturns, ResumeReturns, Returns, SyncType, Calls
        <5>3. PauseReturns  BY <1>0, <4>2, <5>1, <5>2 DEF Written
        <5> QED  BY <5>3 DEF PauseReturns, InPause
      <4> QED  BY <1>12, <4>1, <4>2
    <3>2. paused /\ pc["monitor"] /= "unpause" /\ Pausing  BY <1>4, <3>1 DEF PauseInv, InPause
    <3>3. pc'["monitor"] /= "unpause"  BY <1>8, <1>9, <3>2
    <3>4. ~ResumeReturns /\ ~MonitorUnpauses  BY <1>7, <3>2 DEF ResumeReturns, MonitorUnpauses
    <3>5. paused' = paused \/ paused' = TRUE  BY <1>0, <2>2, <3>4 DEF Written, ProcSetsPaused
    <3> QED  BY <3>2, <3>3, <3>5
  <2> QED  BY <2>1, <2>2
<1> QED  BY <1>11, <1>12

\* The feed's samples that it does not hold any more are the first TakenTo.
LEMMA TakenUpTo ==
  ASSUME FlowInv
  PROVE  /\ TakenTo \in Nat /\ TakenTo <= End
         /\ Taken = {s \in Samples : s <= TakenTo}
         /\ Cardinality(Taken) <= TakenTo
<1>1. /\ pendingQueue \in Seq(Nat) /\ Len(pendingQueue) \in Nat /\ Len(pendingQueue) <= FedTo
      /\ \A i \in 1 .. Len(pendingQueue) : pendingQueue[i] = TakenTo + i
  BY LenProperties DEF FlowInv, FlowType
<1>2. globalSteps \in Nat /\ globalSteps >= 1 /\ globalSteps <= TotalSteps /\ TotalSteps \in Nat \ {0}
      /\ End = TotalSteps + 1 /\ Samples = 1 .. TotalSteps
  BY SharedAssumption DEF FlowInv, FlowType, Samples, End
<1>3. FedTo \in Nat /\ FedTo <= End  BY <1>2 DEF FedTo
<1>4. TakenTo \in Nat /\ TakenTo <= End /\ TakenTo = FedTo - Len(pendingQueue)  BY <1>1, <1>3, <1>2 DEF TakenTo
<1>5. \A s \in Samples : s \in Fed <=> s <= FedTo  BY <1>2 DEF Fed, FedTo
<1>6. ASSUME NEW s \in Samples PROVE s \in Taken <=> s <= TakenTo
  <2>1. s \in Nat /\ s <= TotalSteps  BY <1>2
  <2>2. s \in RangeOf(pendingQueue) <=> In(pendingQueue, s)  BY DEF RangeOf, In
  <2>3. In(pendingQueue, s) => s > TakenTo  BY <1>1, <1>4, <2>1 DEF In
  <2>4. s > TakenTo /\ s <= FedTo => In(pendingQueue, s)
    <3> SUFFICES ASSUME s > TakenTo, s <= FedTo PROVE In(pendingQueue, s)  OBVIOUS
    <3>1. s - TakenTo \in 1 .. Len(pendingQueue) /\ TakenTo + (s - TakenTo) = s  BY <1>1, <1>3, <1>4, <2>1
    <3>2. pendingQueue[s - TakenTo] = s  BY <1>1, <3>1
    <3> QED  BY <3>1, <3>2 DEF In
  <2>5. TakenTo <= FedTo  BY <1>1, <1>3, <1>4
  <2>6. s <= TakenTo => s <= FedTo  BY <1>3, <1>4, <2>1, <2>5
  <2> QED  BY <1>3, <1>4, <1>5, <2>1, <2>2, <2>3, <2>4, <2>6 DEF Taken
<1>7. Taken \subseteq Samples  BY DEF Taken, Fed
<1>8. Taken = {s \in Samples : s <= TakenTo}  BY <1>6, <1>7
<1>9. Taken \subseteq 1 .. TakenTo
  <2> SUFFICES ASSUME NEW s \in Samples, s <= TakenTo PROVE s \in 1 .. TakenTo  BY <1>8
  <2> QED  BY <1>2, <1>4
<1>10. IsFiniteSet(1 .. TakenTo) /\ Cardinality(1 .. TakenTo) = TakenTo  BY <1>4, FS_Interval, SMTT(60)
<1>11. Cardinality(Taken) <= TakenTo  BY <1>9, <1>10, FS_Subset
<1> QED  BY <1>4, <1>8, <1>11

LEMMA InitSyncOrder == Init => SyncOrder
BY InitOrder, InitRollout, InitPolicy, InitOver, InitPause DEF SyncOrder

LEMMA NextSyncOrder ==
  ASSUME MaxRequiredSamples = SamplesPerSync, SyncOrder, [Next]_vars
  PROVE  SyncOrder'
<1>1. OrderInv' /\ OrderInv  BY NextOrder DEF SyncOrder
<1>2. RolloutInv'  BY <1>1, NextRollout DEF SyncOrder, OrderInv
<1>3. PolicyInv'  BY <1>1, NextPolicy DEF SyncOrder, OrderInv
<1>4. OverInv'  BY <1>1, NextOver DEF SyncOrder, OrderInv
<1>5. PauseInv'  BY <1>1, NextPause DEF SyncOrder, OrderInv
<1> QED  BY <1>1, <1>2, <1>3, <1>4, <1>5 DEF SyncOrder

\* With staleness_threshold = 0 a version's samples are all that may be ahead.
LEMMA Synchronous ==
  ASSUME StaleNum = 0
  PROVE  MaxRequiredSamples = SamplesPerSync
<1>1. StaleDen \in Nat \ {0} /\ SamplesPerSync \in Nat  BY SharedAssumption, Sizes
<1>2. MaxRequiredSamples = (SamplesPerSync * StaleDen) \div StaleDen  BY <1>1 DEF MaxRequiredSamples
<1> QED  BY <1>1, <1>2

\* "Synchronous training": every sample was generated with the parameters the
\* trainer holds when it trains on it.
THEOREM OnPolicyHolds == ASSUME StaleNum = 0 PROVE Spec => []OnPolicy
<1>1. MaxRequiredSamples = SamplesPerSync  BY Synchronous
<1>2. SyncOrder /\ [Next]_vars => SyncOrder'  BY <1>1, NextSyncOrder
<1>3. SyncOrder => OnPolicy  BY DEF SyncOrder, PolicyInv, OnPolicy
<1> QED  BY InitSyncOrder, <1>2, <1>3, PTL DEF Spec

\* The rollouter generates at most rollout_num samples between two updates.
THEOREM RolloutNumHolds == ASSUME StaleNum = 0 PROVE Spec => []RolloutNum
<1>1. MaxRequiredSamples = SamplesPerSync  BY Synchronous
<1>2. SyncOrder /\ [Next]_vars => SyncOrder'  BY <1>1, NextSyncOrder
<1>3. ASSUME SyncOrder PROVE RolloutNum
  <2>1. SyncInv /\ FlowInv  BY <1>3 DEF SyncOrder, OrderInv, AsyncInv
  <2>2. Counted \in Nat /\ TakenTo <= SamplesPerSync * (Counted + 1)  BY <1>3 DEF SyncOrder, RolloutInv
  <2>3. Counted <= mqVersion /\ mqVersion \in Nat
    BY <2>1, <2>2 DEF SyncInv, SyncType, VersionsAt, Counted
  <2>4. SamplesPerSync * (Counted + 1) <= SamplesPerSync * (mqVersion + 1)  BY <2>2, <2>3, Sizes
  <2>5. SamplesPerSync * (mqVersion + 1) = MaxRequiredSamples + SamplesPerSync * mqVersion
        /\ SamplesPerSync * (mqVersion + 1) \in Nat /\ SamplesPerSync * (Counted + 1) \in Nat
    BY <1>1, <2>2, <2>3, Sizes
  <2>6. TakenTo \in Nat /\ Cardinality(Taken) <= TakenTo  BY <2>1, TakenUpTo
  <2>7. Cardinality(Taken) \in Nat  BY Finite DEF Taken, Fed
  <2> QED  BY <2>2, <2>4, <2>5, <2>6, <2>7 DEF RolloutNum
<1> QED  BY InitSyncOrder, <1>2, <1>3, PTL DEF Spec

\* From the return of pause() to update_param_version() the rollouter is paused.
THEOREM PausedDuringSyncHolds == ASSUME StaleNum = 0 PROVE Spec => []PausedDuringSync
<1>1. MaxRequiredSamples = SamplesPerSync  BY Synchronous
<1>2. SyncOrder /\ [Next]_vars => SyncOrder'  BY <1>1, NextSyncOrder
<1>3. ASSUME SyncOrder, tpc = "transfer", ~ProcOver PROVE paused
  <2>1. rpc["pause"] = "done"  BY <1>3 DEF SyncOrder, OrderInv, AsyncInv, SyncInv, CallsInOrder
  <2>2. ~Ended
    <3>1. End \notin Trained  BY <1>3 DEF SyncOrder, OverInv
    <3> QED  BY <1>3, <3>1 DEF SyncOrder, OrderInv, GivenInv
  <2> QED  BY <1>3, <2>1, <2>2 DEF SyncOrder, PauseInv
<1>4. SyncOrder => PausedDuringSync  BY <1>3 DEF PausedDuringSync
<1> QED  BY InitSyncOrder, <1>2, <1>4, PTL DEF Spec
-----------------------------------------------------------------------------
(* What does not happen without failures, and without partial rollout.     *)

LEMMA InitNone == Init => NoneFails /\ NoneCancelled
BY DEF Init, RolloutInit, NoneFails, NoneCancelled, Names

\* What a task may turn into, the server's answers told apart.
LEMMA Answers ==
  ASSUME SyncInv, FlowInv, CountInv, [Next]_vars, NEW s \in Samples, task'[s] /= task[s]
  PROVE  /\ task'[s] = "raised" => MaxFailures > 0
         /\ task'[s] = "interrupted" => ServersCancel
         /\ task'[s] = "refused" => serversPaused
         /\ task'[s] = "cancelled" => task[s] \in {"interrupted", "refused"}
<1>0. Written /\ SyncType /\ task \in [Samples -> TaskStates] /\ failed \subseteq Samples
  BY Frames DEF SyncInv, FlowInv, FlowType, CountInv
<1>1. CASE ProcSubmits
  <2>1. task' = [task EXCEPT ![hand] = "created"]  BY <1>1 DEF ProcSubmits
  <2> QED  BY <1>0, <2>1
<1>2. CASE ServersCancel
  <2>1. task'[s] = IF task[s] = "generating" THEN "interrupted" ELSE task[s]  BY <1>2 DEF ServersCancel
  <2> QED  BY <1>2, <2>1
<1>3. ASSUME NEW t \in Samples, TaskStarts(t) \/ TaskCompletes(t) \/ TaskEnds(t) \/ PutArrives(t)
      PROVE  task'[s] \in {"sent", "putting", "put", "none"}
  <2>1. \E x \in {"sent", "putting", "put", "none"} : task' = [task EXCEPT ![t] = x]
    BY <1>3 DEF TaskStarts, TaskCompletes, TaskEnds, PutArrives
  <2> QED  BY <1>0, <2>1
<1>4. ASSUME NEW t \in Samples, ServerAccepts(t)
      PROVE  task'[s] = "generating" \/ (task'[s] = "refused" /\ serversPaused)
  BY <1>0, <1>4 DEF ServerAccepts, Accepted
<1>5. ASSUME NEW t \in Samples, GenerationEnds(t)
      PROVE  \/ task'[s] = "completed"
             \/ task'[s] = "cancelled" /\ task[s] \in {"interrupted", "refused"}
             \/ task'[s] = "raised" /\ MaxFailures > 0
  <2>1. PICK o \in {"completed", "cancelled", "raised"} :
          /\ o = "cancelled" => task[t] \in {"interrupted", "refused"}
          /\ o = "raised" => Failures < MaxFailures
          /\ task' = [task EXCEPT ![t] = o]
    BY <1>5 DEF GenerationEnds
  <2>2. Failures \in Nat  BY <1>0, Finite DEF Failures
  <2>3. s = t  BY <1>0, <2>1
  <2>4. Failures < MaxFailures => MaxFailures > 0  BY <2>2, RollouterAssumption
  <2> QED  BY <1>0, <2>1, <2>3, <2>4
<1>6. task' = task \/ ProcSubmits \/ ServersCancel
      \/ \E t \in Samples : \/ TaskStarts(t) \/ TaskCompletes(t) \/ TaskEnds(t) \/ PutArrives(t)
                            \/ ServerAccepts(t) \/ GenerationEnds(t)
  BY <1>0 DEF Written, Generation
<1> QED  BY <1>1, <1>2, <1>3, <1>4, <1>5, <1>6

LEMMA NextFails ==
  ASSUME AsyncInv, CountInv, NoneFails, MaxFailures = 0, [Next]_vars
  PROVE  NoneFails'
<1>0. Written /\ SyncInv /\ FlowInv  BY Frames DEF AsyncInv, SyncInv
<1>1. \A s \in Samples : task'[s] /= "raised"
  <2> SUFFICES ASSUME NEW s \in Samples, task'[s] = "raised" PROVE FALSE  OBVIOUS
  <2>1. task'[s] /= task[s]  BY DEF NoneFails
  <2> QED  BY <1>0, <2>1, Answers
<1>2. failed' = {}
  <2>1. ASSUME NEW t \in Samples, TaskEnds(t) PROVE failed' = failed
    <3>1. task[t] /= "raised"  BY DEF NoneFails
    <3> QED  BY <2>1, <3>1 DEF TaskEnds
  <2> QED  BY <1>0, <2>1 DEF Written, NoneFails, ProcReaps, PauseGathered
<1> QED  BY <1>1, <1>2 DEF NoneFails

LEMMA NextCancelled ==
  ASSUME AsyncInv, CountInv, NoneCancelled, ~PartialRollout, [Next]_vars
  PROVE  NoneCancelled'
<1>0. Written /\ Moved /\ SyncInv /\ SyncType /\ FlowInv  BY Frames DEF AsyncInv, SyncInv
<1>1. ~ServersCancel  BY DEF ServersCancel, NoneCancelled
<1>2. serversPaused' = FALSE  BY <1>0, <1>1 DEF Written, NoneCancelled, ServersResume
<1>3. \A s \in Samples : task'[s] \notin {"interrupted", "refused", "cancelled"}
  <2> SUFFICES ASSUME NEW s \in Samples, task'[s] \in {"interrupted", "refused", "cancelled"} PROVE FALSE  OBVIOUS
  <2>1. task'[s] /= task[s]  BY DEF NoneCancelled
  <2> QED  BY <1>0, <1>1, <2>1, Answers DEF NoneCancelled
<1>4. cancelQueue' = <<>>
  <2>1. ASSUME NEW t \in Samples, TaskEnds(t) PROVE cancelQueue' = cancelQueue
    <3>1. task[t] /= "cancelled"  BY DEF NoneCancelled
    <3> QED  BY <2>1, <3>1 DEF TaskEnds
  <2>2. ~ProcTakesCancelled  BY DEF ProcTakesCancelled, NoneCancelled
  <2> QED  BY <1>0, <2>1, <2>2 DEF Written, NoneCancelled
<1>5. pc'["pause"] /= "cancelling"
  <2> SUFFICES ASSUME pc'["pause"] = "cancelling" PROVE FALSE  OBVIOUS
  <2>1. pc'["pause"] /= pc["pause"]  BY DEF NoneCancelled
  <2>2. ~PauseSteps
    BY <1>0, <1>1 DEF PauseSteps, PauseLocked, PauseGathers, PauseGathered, ServersReset, PauseReturns, Goto,
                      SyncType, Names
  <2>3. ~CallArrives("pause") /\ ~CallAcquires("pause")
    BY <1>0 DEF CallArrives, CallAcquires, Goto, SyncType, Names
  <2>4. ~\E s \in Samples : TaskEnds(s)
    BY <1>0, <2>1 DEF TaskEnds, PcAfterTaskEnd, SyncType, Names
  <2> QED  BY <1>0, <2>1, <2>2, <2>3, <2>4 DEF Moved
<1> QED  BY <1>2, <1>3, <1>4, <1>5 DEF NoneCancelled
-----------------------------------------------------------------------------
(* The end marker.                                                         *)

LEMMA InitFinal == Init => FinalInv
<1> SUFFICES ASSUME Init PROVE FinalInv  OBVIOUS
<1>1. pc["feed"] = "none" /\ pc["proc"] = "none" /\ globalSteps = 1 /\ pendingQueue = <<>> /\ waitFor = "drain"
  BY DEF Init, RolloutInit, Names
<1>2. TakenTo = 0  BY <1>1, EmptySeq DEF TakenTo, FedTo
<1> QED  BY <1>1, <1>2, Sizes DEF FinalInv

LEMMA FeedUpTo == FlowInv => FedTo \in Nat
BY SharedAssumption DEF FlowInv, FlowType, FedTo, Samples, End

LEMMA NextFinal ==
  ASSUME AsyncInv, CountInv, FinalInv, [Next]_vars
  PROVE  FinalInv'
<1>0. Written /\ Moved /\ SyncInv /\ SyncType /\ FlowInv  BY Frames DEF AsyncInv, SyncInv
<1>1. /\ TakenTo \in Nat /\ TakenTo <= End /\ End \in Nat
      /\ TakenTo' = TakenTo \/ (ProcTakes /\ TakenTo' = TakenTo + 1 /\ Head(pendingQueue) = TakenTo + 1)
  BY <1>0, NextTaken, Sizes
<1>2. TakenTo' <= End
  <2>1. CASE ProcTakes /\ TakenTo' = TakenTo + 1 /\ Head(pendingQueue) = TakenTo + 1
    <3>1. pendingQueue \in Seq(Nat) /\ pendingQueue /= <<>>
      BY <1>0, <2>1 DEF ProcTakes, FlowInv, FlowType
    <3>2. Len(pendingQueue) \in Nat \ {0}  BY <3>1, EmptySeq, LenProperties
    <3>3. FedTo \in Nat /\ FedTo <= End
      BY <1>0, SharedAssumption DEF FlowInv, FlowType, FedTo, Samples, End
    <3>4. TakenTo + 1 <= FedTo  BY <3>2, <3>3 DEF TakenTo
    <3> QED  BY <1>1, <2>1, <3>3, <3>4
  <2> QED  BY <1>1, <2>1
<1>3. TakenTo' = End <=> waitFor' = "final"
  <2>1. CASE ProcTakes
    <3>1. TakenTo /= End  BY <2>1 DEF FinalInv, ProcTakes
    <3>2. waitFor' = IF Head(pendingQueue) = End THEN "final" ELSE "slots"  BY <2>1 DEF ProcTakes
    <3>3. TakenTo' = TakenTo + 1 /\ Head(pendingQueue) = TakenTo + 1
      <4>1. FedTo' = FedTo
        BY <1>0, <2>1 DEF ProcTakes, FedTo, SyncType, Names, FeedUnblocked
      <4>2. pendingQueue \in Seq(Nat) /\ pendingQueue /= <<>> /\ pendingQueue' = Tail(pendingQueue)
        BY <1>0, <2>1 DEF ProcTakes, FlowInv, FlowType
      <4>3. Len(pendingQueue) \in Nat /\ Len(pendingQueue') = Len(pendingQueue) - 1
        BY <4>2, HeadTailProperties, LenProperties
      <4>4. TakenTo = FedTo - Len(pendingQueue) /\ TakenTo' = FedTo - Len(pendingQueue') /\ FedTo \in Nat
        BY <1>0, <4>1, FeedUpTo DEF TakenTo
      <4> QED  BY <1>1, <4>3, <4>4
    <3> QED  BY <1>1, <3>2, <3>3
  <2>2. CASE ~ProcTakes
    <3>1. TakenTo' = TakenTo  BY <1>1, <2>2
    <3>2. CASE waitFor' = waitFor  BY <3>1, <3>2 DEF FinalInv
    <3>3. CASE ProcSetsPaused \/ ProcTakesCancelled
      <4>1. pc["proc"] \in {"setPaused", "top"} /\ waitFor' /= "final"
        BY <3>3 DEF ProcSetsPaused, ProcTakesCancelled
      <4> QED  BY <3>1, <4>1 DEF FinalInv
    <3> QED  BY <1>0, <2>2, <3>2, <3>3 DEF Written
  <2> QED  BY <2>1, <2>2
<1>4. CASE pc'["proc"] = pc["proc"]
  <2>1. waitFor' = waitFor
    <3>1. ~ProcSetsPaused /\ ~ProcTakesCancelled /\ ~ProcTakes
      BY <1>0, <1>4 DEF ProcSetsPaused, ProcTakesCancelled, ProcTakes, Goto, SyncType, Names
    <3> QED  BY <1>0, <3>1 DEF Written
  <2>2. pc["proc"] = "done" => Live' = {}
    <3> SUFFICES ASSUME pc["proc"] = "done" PROVE Live' = {}  OBVIOUS
    <3>1. Live = {} /\ ~ProcSubmits  BY DEF FinalInv, ProcSubmits
    <3>2. \A s \in Samples : task[s] = "none" /\ TaskMoves(s)  BY <1>0, <3>1, NextTask DEF Live
    <3> QED  BY <3>1, <3>2 DEF TaskMoves, Live
  <2> QED  BY <1>3, <1>4, <2>1, <2>2 DEF FinalInv
<1>5. CASE Processor /\ pc'["proc"] /= pc["proc"]
  <2>1. CASE ProcLoopEnds /\ waitFor = "final"
    <3>1. /\ ActiveTasks = 0 /\ task' = task /\ waitFor' = waitFor
          /\ pc' = [pc EXCEPT !["proc"] = "done",
                              !["main"] = IF @ \in {"waitFirst", "waitProc"} THEN "woken" ELSE @]
      BY <2>1 DEF ProcLoopEnds, LoopOver, EndWorker, flowVars, restVars
    <3>2. Live = {}
      <4>1. Cardinality(Live) \in Nat /\ Cardinality(failed) \in Nat /\ finished \in Nat /\ Live \in SUBSET Samples
        BY Finite DEF Live, CountInv
      <4>2. Cardinality(Live) = 0  BY <3>1, <4>1 DEF ActiveTasks
      <4> QED  BY <4>1, <4>2, Finite, FS_EmptySet
    <3>3. pc'["proc"] = "done" /\ Live' = {}  BY <1>0, <3>1, <3>2 DEF SyncType, Names, Live
    <3> QED  BY <1>3, <2>1, <3>1, <3>3 DEF FinalInv
  <2>2. CASE ~(ProcLoopEnds /\ waitFor = "final")
    <3>1. waitFor' = "final" => pc'["proc"] \in {"loop", "check", "waiting", "returned", "crashed"}
      BY <1>0, <1>5, <2>2 DEF FinalInv, Processor, ProcPauses, ProcSetsPaused, ProcTakesCancelled, ProcTakes,
         ProcAwaitsSample, ProcLoopEnds, ProcLoopAcquires, ProcWaits, ProcSkipsWait, ProcReaps, ProcIdles,
         ProcHoldsBack, ProcSubmits, ProcNotified, Goto, EndWorker, SyncType, Names, restVars
    <3>2. pc'["proc"] /= "done"
      BY <1>0, <1>5, <2>2 DEF Processor, ProcPauses, ProcSetsPaused, ProcTakesCancelled, ProcTakes,
         ProcAwaitsSample, ProcLoopEnds, ProcLoopAcquires, ProcWaits, ProcSkipsWait, ProcReaps, ProcIdles,
         ProcHoldsBack, ProcSubmits, ProcNotified, Goto, EndWorker, SyncType, Names
    <3> QED  BY <1>3, <3>1, <3>2 DEF FinalInv
  <2> QED  BY <2>1, <2>2
<1>6. CASE ~Processor /\ pc'["proc"] /= pc["proc"]
  <2>1. MainStart \/ FeedPut \/ ResumeReturns \/ MonitorUnpauses \/ \E s \in Samples : TaskEnds(s)
    BY <1>0, <1>6 DEF Moved
  <2>2. \/ pc["proc"] = "waiting" /\ pc'["proc"] = "returned"
        \/ /\ pc["proc"] \notin {"loop", "check", "waiting", "returned", "done", "crashed"}
           /\ pc'["proc"] \notin {"done"}
    <3>1. CASE MainStart
      <4>1. pc["proc"] = "none" /\ pc'["proc"] = "top"
        BY <1>0, <3>1 DEF MainStart, SyncType, Names, SyncInv, Begun
      <4> QED  BY <4>1
    <3>2. CASE FeedPut
      <4>1. pc["proc"] = "getting" /\ pc'["proc"] = "takes"
        BY <1>0, <1>6, <3>2 DEF FeedPut, SyncType, Names
      <4> QED  BY <4>1
    <3>3. CASE ResumeReturns \/ MonitorUnpauses
      <4>1. pc["proc"] \in {"idleWait", "submitWait"} /\ pc'["proc"] \in {"idleWoken", "submitWoken"}
        BY <1>0, <1>6, <3>3 DEF ResumeReturns, MonitorUnpauses, Notified, SyncType, Names
      <4> QED  BY <4>1
    <3>4. CASE \E s \in Samples : TaskEnds(s)
      BY <1>0, <1>6, <3>4 DEF TaskEnds, PcAfterTaskEnd, SyncType, Names
    <3> QED  BY <2>1, <3>1, <3>2, <3>3, <3>4
  <2>3. waitFor' = waitFor
    BY <1>0, <1>6 DEF Written, Processor
  <2> QED  BY <1>3, <2>2, <2>3 DEF FinalInv
<1> QED  BY <1>4, <1>5, <1>6
-----------------------------------------------------------------------------
(* Where each coroutine can stand.                                         *)

Standing == \A n \in Names : pc[n] \in Labels[n]

LEMMA InitStanding == Init => Standing
BY DEF Init, RolloutInit, Standing, Names, Labels

LEMMA NextStanding ==
  ASSUME SyncType, Standing, [Next]_vars
  PROVE  Standing'
<1> USE DEF SyncType, Names
<1>0. Moved  BY Frames
<1>1. /\ pc["main"] \in {"start", "waitFirst", "woken", "waitProc", "sending", "sent", "stop", "done"}
      /\ pc["feed"] \in {"none", "put", "putDone", "full", "fullDone", "done"}
      /\ pc["proc"] \in {"none", "top", "setPaused", "getting", "takes", "loop", "check", "waiting", "returned",
                         "idle", "idleWait", "idleWoken", "submit", "submitWait", "submitWoken", "done", "crashed"}
      /\ pc["monitor"] \in {"check", "locked", "sleep", "awake", "unpause", "done"}
      /\ pc["pause"] \in {"none", "start", "locked", "cancelling", "gather", "gathering", "gathered", "resetting",
                          "reset"}
      /\ pc["update"] \in {"none", "start", "locked", "sizing", "sized", "reporting", "reported"}
      /\ pc["resume"] \in {"none", "start", "locked", "resuming", "resumed"}
  BY DEF Standing, Labels
<1>2. pc'["main"] \in Labels["main"]
  <2>1. MainStart \/ MainWoken \/ MainAcquires \/ MainStops \/ FinishSignalArrives =>
          pc'["main"] \in {"waitFirst", "sending", "waitProc", "stop", "done", "sent"}
    BY DEF MainStart, MainWoken, MainAcquires, MainStops, FinishSignalArrives, Goto, AfterWorkers
  <2>2. FeedPut \/ ProcLoopEnds \/ ProcSkipsWait \/ ProcReaps => pc'["main"] = pc["main"] \/ pc'["main"] = "woken"
    BY DEF FeedPut, ProcLoopEnds, ProcSkipsWait, ProcReaps, EndWorker, Goto
  <2> QED  BY <1>0, <1>1, <2>1, <2>2 DEF Moved, Labels
<1>3. pc'["feed"] \in Labels["feed"]
  <2>1. MainStart \/ FeedBlocks => pc'["feed"] \in {"put", "full", "fullDone"}
    BY DEF MainStart, FeedBlocks, Goto
  <2>2. FeedPut => pc'["feed"] \in {"put", "putDone", "done"}
    BY DEF FeedPut
  <2>3. ProcTakes => pc'["feed"] \in {pc["feed"], "put", "putDone"}
    BY DEF ProcTakes, FeedUnblocked
  <2> QED  BY <1>0, <1>1, <2>1, <2>2, <2>3 DEF Moved, Labels
<1>4. pc'["proc"] \in Labels["proc"]
  <2>1. MainStart \/ FeedPut => pc'["proc"] \in {"top", "takes", pc["proc"]}
    BY DEF MainStart, FeedPut
  <2>2. ResumeReturns \/ MonitorUnpauses => pc'["proc"] \in {"idleWoken", "submitWoken", pc["proc"]}
    BY DEF ResumeReturns, MonitorUnpauses, Notified
  <2>3. (\E s \in Samples : TaskEnds(s)) => pc'["proc"] \in {"returned", pc["proc"]}
    BY DEF TaskEnds, PcAfterTaskEnd
  <2>4. ProcPauses \/ ProcSetsPaused \/ ProcTakesCancelled \/ ProcTakes \/ ProcAwaitsSample \/ ProcLoopEnds =>
          pc'["proc"] \in {"setPaused", "loop", "getting", "idle", "submit", "done"}
    BY DEF ProcPauses, ProcSetsPaused, ProcTakesCancelled, ProcTakes, ProcAwaitsSample, ProcLoopEnds, Goto, EndWorker
  <2>5. ProcLoopAcquires \/ ProcWaits \/ ProcSkipsWait \/ ProcReaps =>
          pc'["proc"] \in {"check", "returned", "waiting", "loop", "crashed"}
    BY DEF ProcLoopAcquires, ProcWaits, ProcSkipsWait, ProcReaps, Goto, EndWorker
  <2>6. ProcIdles \/ ProcHoldsBack \/ ProcSubmits \/ ProcNotified =>
          pc'["proc"] \in {"idleWait", "top", "submitWait", "idle", "submit"}
    BY DEF ProcIdles, ProcHoldsBack, ProcSubmits, ProcNotified, Goto
  <2>7. Processor => pc'["proc"] \in Labels["proc"]  BY <2>4, <2>5, <2>6 DEF Processor, Labels
  <2>8. {"top", "takes", "idleWoken", "submitWoken", "returned", pc["proc"]} \subseteq Labels["proc"]
    BY <1>1 DEF Labels
  <2> QED  BY <1>0, <2>1, <2>2, <2>3, <2>7, <2>8 DEF Moved
<1>5. pc'["monitor"] \in Labels["monitor"]
  <2>1. Monitor \/ MonitorTimer => pc'["monitor"] \in {"locked", "sleep", "done", "awake", "unpause", "check"}
    BY DEF Monitor, MonitorAcquires, MonitorChecks, MonitorDecides, MonitorUnpauses, MonitorTimer, Goto
  <2> QED  BY <1>0, <1>1, <2>1 DEF Moved, Labels
<1>6. pc'["pause"] \in Labels["pause"]
  <2>1. PauseSteps =>
          pc'["pause"] \in {"cancelling", "gather", "gathered", "gathering", "resetting", "reset", "none"}
    BY DEF PauseSteps, PauseLocked, ServersCancel, PauseGathers, PauseGathered, ServersReset, PauseReturns, Goto
  <2>2. CallArrives("pause") \/ CallAcquires("pause") => pc'["pause"] \in {"start", "locked"}
    BY DEF CallArrives, CallAcquires, Goto
  <2>3. (\E s \in Samples : TaskEnds(s)) => pc'["pause"] \in {"gathered", pc["pause"]}
    BY DEF TaskEnds, PcAfterTaskEnd
  <2> QED  BY <1>0, <1>1, <2>1, <2>2, <2>3 DEF Moved, Labels
<1>7. pc'["update"] \in Labels["update"] /\ pc'["resume"] \in Labels["resume"]
  <2>1. UpdateSteps => pc'["update"] \in {"sizing", "sized", "reporting", "reported", "none"}
    BY DEF UpdateSteps, UpdateLocked, QueueSizeAnswers, UpdateResets, ValidationArrives, UpdateReturns, Goto
  <2>2. ResumeSteps => pc'["resume"] \in {"resuming", "resumed", "none"}
    BY DEF ResumeSteps, ResumeLocked, ServersResume, ResumeReturns, Goto
  <2>3. /\ CallArrives("update") \/ CallAcquires("update") => pc'["update"] \in {"start", "locked"}
        /\ CallArrives("resume") \/ CallAcquires("resume") => pc'["resume"] \in {"start", "locked"}
    BY DEF CallArrives, CallAcquires, Goto
  <2> QED  BY <1>0, <1>1, <2>1, <2>2, <2>3 DEF Moved, Labels
<1> QED  BY <1>2, <1>3, <1>4, <1>5, <1>6, <1>7 DEF Standing

LEMMA InitEnd == Init => EndInv
<1> SUFFICES ASSUME Init PROVE EndInv  OBVIOUS
<1>1. queue = <<>> /\ Trained = {}  BY DEF Init, SharedInit, Trained
<1> QED  BY <1>1, EmptySeq DEF EndInv

\* Once it is sent, no sample is on its way to the queue.
LEMMA PutsFirst ==
  ASSUME OverInv, FinalInv, ProcessorSafe, FinishSignalArrives \/ \E s \in Samples : PutArrives(s)
  PROVE  ~In(queue, End) /\ End \notin Trained
<1> SUFFICES ASSUME In(queue, End) \/ End \in Trained PROVE FALSE  OBVIOUS
<1>1. pc["main"] \in {"sent", "stop", "done"} /\ pc["proc"] = "done"
  BY DEF OverInv, ProcOver, ProcessorSafe
<1>2. Live = {}  BY <1>1 DEF FinalInv
<1>3. \A s \in Samples : task[s] = "none"  BY <1>2 DEF Live
<1> QED  BY <1>1, <1>3 DEF FinishSignalArrives, PutArrives

LEMMA NextEnd ==
  ASSUME AsyncInv, LagInv, OverInv, FinalInv, EndInv, ProcessorSafe, [Next]_vars
  PROVE  EndInv'
<1>0. Written /\ SyncInv /\ SyncType /\ FlowInv /\ queue \in Seq(1 .. End) /\ Len(queue) \in Nat
      /\ Len(queue) <= MaxRequiredSamples
  BY Frames, LenProperties DEF AsyncInv, SyncInv, FlowInv, FlowType, LagInv
<1>1. CASE Collects
  <2>1. queue /= <<>> /\ queue' = Tail(queue) /\ Trained' = Trained \union {Head(queue)}
    BY <1>0, <1>1, Collected DEF Collects
  <2>2. /\ Head(queue) = queue[1] /\ Len(queue') = Len(queue) - 1 /\ Len(queue) >= 1
        /\ \A i \in 1 .. Len(queue) - 1 : queue'[i] = queue[i + 1] /\ i + 1 \in 1 .. Len(queue)
        /\ queue' \in Seq(1 .. End)
    BY <1>0, <2>1, HeadTailProperties, EmptySeq
  <2>3. ASSUME NEW i \in 1 .. Len(queue'), queue'[i] = End PROVE i = Len(queue')
    <3>1. i \in 1 .. Len(queue) - 1 /\ i \in Nat  BY <2>2
    <3>2. queue[i + 1] = End /\ i + 1 \in 1 .. Len(queue)  BY <2>2, <2>3, <3>1
    <3>3. i + 1 = Len(queue)  BY <3>2 DEF EndInv
    <3> QED  BY <1>0, <2>2, <3>1, <3>3
  <2>4. End \in Trained' => queue' = <<>>
    <3> SUFFICES ASSUME End \in Trained' PROVE queue' = <<>>  OBVIOUS
    <3>1. Head(queue) = End  BY <2>1 DEF EndInv
    <3>2. 1 \in 1 .. Len(queue)  BY <1>0, <2>2
    <3>3. 1 = Len(queue)  BY <2>2, <3>1, <3>2 DEF EndInv
    <3>4. Len(queue') = 0  BY <1>0, <2>2, <3>3
    <3> QED  BY <2>2, <3>4, EmptySeq
  <2> QED  BY <2>3, <2>4 DEF EndInv
<1>2. CASE RunnerClears
  <2>1. (queue' = <<>> \/ queue' = queue) /\ got' = got
    BY <1>2 DEF RunnerClears, MQ!ClearQueue, mqVars
  <2>2. CASE queue' = <<>>  BY <2>2, EmptySeq DEF EndInv
  <2>3. CASE queue' = queue  BY <2>1, <2>3 DEF EndInv, Trained
  <2> QED  BY <2>1, <2>2, <2>3
<1>3. CASE Puts
  <2>1. ~In(queue, End) /\ End \notin Trained  BY <1>3, PutsFirst DEF Puts
  <2>2. PICK x \in 1 .. End : MQ!PutSample(x)
    BY <1>3, Sizes DEF Puts, FinishSignalArrives, PutArrives, Samples
  <2>3. \A i \in 1 .. Len(queue) : queue[i] /= End  BY <2>1 DEF In
  <2>4. got' = got /\ Len(queue') \in Nat
        /\ \A i \in 1 .. Len(queue') : i = Len(queue') \/ queue'[i] /= End
    BY <1>0, <2>2, <2>3, PutPlaces
  <2> QED  BY <2>1, <2>4 DEF EndInv, Trained
<1>4. CASE queue' = queue /\ got' = got  BY <1>4 DEF EndInv, Trained
<1> QED  BY <1>0, <1>1, <1>2, <1>3, <1>4 DEF Written

\* When the trainer has stopped, what is taken is given or gone, and all is taken.
LEMMA Delivered ==
  ASSUME FlowInv, GivenInv, OverInv, FinalInv, EndInv, ProcessorSafe, cancelQueue = <<>>
  PROVE  AllDelivered
<1> SUFFICES ASSUME tpc = "done", NEW s \in Samples PROVE s \in Given \union Gone
  BY DEF AllDelivered, Given, Gone, Fed
<1>1. End \in Trained /\ queue = <<>>  BY DEF GivenInv, Ended, EndInv
<1>2. pc["proc"] = "done" /\ TakenTo = End /\ Live = {}
  BY <1>1 DEF OverInv, ProcOver, ProcessorSafe, FinalInv
<1>3. hand = NoSample /\ task[s] = "none"  BY <1>2 DEF FlowInv, FlowType, InHand, Live
<1>4. s \in Fed \ RangeOf(pendingQueue)
  <2>1. s <= TakenTo  BY <1>2, Sizes DEF Samples
  <2> QED  BY <2>1, TakenUpTo DEF Taken
<1>5. pendingQueue \o cancelQueue \o queue = pendingQueue
  <2>1. pendingQueue \in Seq(Nat)  BY DEF FlowInv, FlowType
  <2>2. pendingQueue \o <<>> = pendingQueue  BY <2>1, ConcatEmptySeq
  <2> QED  BY <1>1, <2>2
<1> QED  BY <1>3, <1>4, <1>5, Sizes DEF Gone, Given

-----------------------------------------------------------------------------
(* Where a sample goes: into the hand, to the trainer, or out of a full    *)
(* queue.                                                                  *)

Dropped(s) == Puts /\ MQ!Full /\ s = Head(queue)

LEMMA PutLeaves ==
  ASSUME FlowInv, NEW x \in 1 .. End, MQ!PutSample(x), NEW s \in Samples
  PROVE  /\ MQ!Full => queue /= <<>>
         /\ In(queue', s) <=> (In(queue, s) /\ ~(MQ!Full /\ s = Head(queue))) \/ s = x
<1>1. queue \in Seq(1 .. End) /\ Once(queue, s)  BY DEF FlowInv, FlowType, PlacedOnce
<1>2. MQ!Full => queue /= <<>>
  <2>1. Len(<<>>) = 0 /\ MaxRequiredSamples \in Nat \ {0}  BY Sizes, EmptySeq
  <2> QED  BY <2>1 DEF MQ!Full
<1> DEFINE kept == IF MQ!Full THEN Tail(queue) ELSE queue
<1>3. queue' = Append(kept, x)  BY DEF MQ!PutSample
<1>4. kept \in Seq(1 .. End) /\ (In(kept, s) <=> In(queue, s) /\ ~(MQ!Full /\ s = Head(queue)))
  BY <1>1, <1>2, HeadLeaves
<1> HIDE DEF kept
<1>5. In(Append(kept, x), s) <=> In(kept, s) \/ x = s  BY <1>4, Appended
<1> QED  BY <1>2, <1>3, <1>4, <1>5

\* How a sample comes into the queue and leaves it.
LEMMA QueueMoves ==
  ASSUME SyncInv, FlowInv, GivenInv, EndInv, [Next]_vars, NEW s \in Samples
  PROVE  /\ In(queue, s) /\ ~In(queue', s) => s \in Trained' \/ Dropped(s)
         /\ s \in Trained' /\ s \notin Trained => In(queue, s)
         /\ s \in Trained => s \in Trained'
         /\ task[s] = "putting" /\ task'[s] = "put" => In(queue', s)
         /\ Dropped(s) => In(queue, s) /\ ~In(queue', s) /\ Trained' = Trained /\ task'[s] = task[s]
<1>0. Written /\ queue \in Seq(1 .. End) /\ got = [c \in {"trainer"} |-> got[c]] /\ TaskMoves(s)
      /\ task \in [Samples -> TaskStates]
  BY Frames, NextTask DEF SyncInv, FlowInv, FlowType
<1>1. ASSUME NEW x \in 1 .. End, MQ!PutSample(x), (FinishSignalArrives /\ x = End) \/ (x \in Samples /\ PutArrives(x))
      PROVE  /\ In(queue, s) /\ ~In(queue', s) => MQ!Full /\ s = Head(queue)
             /\ s = x => In(queue', s)
             /\ Trained' = Trained
             /\ MQ!Full /\ s = Head(queue) => In(queue, s) /\ ~In(queue', s) /\ task'[s] = task[s]
  <2>1. Trained' = Trained  BY <1>1, PutQueue DEF Trained
  <2>2. /\ MQ!Full => queue /= <<>>
        /\ In(queue', s) <=> (In(queue, s) /\ ~(MQ!Full /\ s = Head(queue))) \/ s = x
    BY <1>1, PutLeaves
  <2>3. MQ!Full /\ s = Head(queue) => In(queue, s)  BY <1>0, <2>2, HeadLeaves
  <2>4. In(queue, s) => s /= x /\ task'[s] = task[s]
    <3> SUFFICES ASSUME In(queue, s) PROVE s /= x /\ task'[s] = task[s]  OBVIOUS
    <3>1. task[s] \in {"none", "put"}  BY DEF FlowInv, PlacedOnce
    <3>2. CASE FinishSignalArrives /\ x = End
      BY <1>0, <3>2, Sizes DEF FinishSignalArrives, flowVars
    <3>3. CASE x \in Samples /\ PutArrives(x)
      <4>1. task[x] = "putting" /\ task' = [task EXCEPT ![x] = "put"]  BY <3>3 DEF PutArrives
      <4> QED  BY <1>0, <3>1, <3>3, <4>1
    <3> QED  BY <1>1, <3>2, <3>3
  <2> QED  BY <2>1, <2>2, <2>3, <2>4
<1>2. CASE Puts
  <2>1. PICK x \in 1 .. End : MQ!PutSample(x) /\ ((FinishSignalArrives /\ x = End) \/ (x \in Samples /\ PutArrives(x)))
    BY <1>2, Sizes DEF Puts, FinishSignalArrives, PutArrives, Samples
  <2>2. /\ In(queue, s) /\ ~In(queue', s) => MQ!Full /\ s = Head(queue)
        /\ s = x => In(queue', s)
        /\ Trained' = Trained
        /\ MQ!Full /\ s = Head(queue) => In(queue, s) /\ ~In(queue', s) /\ task'[s] = task[s]
    BY <1>1, <2>1
  <2>3. task[s] = "putting" /\ task'[s] = "put" => s = x
    <3>1. CASE FinishSignalArrives  BY <3>1 DEF FinishSignalArrives, flowVars
    <3>2. CASE x \in Samples /\ PutArrives(x)
      <4>1. task' = [task EXCEPT ![x] = "put"]  BY <3>2 DEF PutArrives
      <4> QED  BY <1>0, <4>1
    <3> QED  BY <2>1, <3>1, <3>2
  <2> QED  BY <1>2, <2>2, <2>3 DEF Dropped
<1>3. CASE ~Puts
  <2>1. ~Dropped(s) /\ ~PutArrives(s)  BY <1>3 DEF Dropped, Puts
  <2>2. ~(task[s] = "putting" /\ task'[s] = "put")  BY <1>0, <2>1 DEF TaskMoves
  <2>3. CASE Collects
    <3>1. queue /= <<>> /\ queue' = Tail(queue) /\ Trained' = Trained \union {Head(queue)}
      BY <2>3, Collected DEF Collects
    <3>2. Once(queue, s)  BY DEF FlowInv, PlacedOnce
    <3>3. In(queue, Head(queue)) /\ (In(Tail(queue), s) <=> In(queue, s) /\ s /= Head(queue))
      BY <1>0, <3>1, <3>2, HeadLeaves
    <3> QED  BY <2>1, <2>2, <3>1, <3>3
  <2>4. CASE RunnerClears
    <3>1. queue = <<>> /\ queue' = queue /\ got' = got
      <4>1. End \in Trained  BY <2>4 DEF RunnerClears, TrainOver, GivenInv, Ended
      <4> QED  BY <2>4, <4>1 DEF EndInv, RunnerClears, mqVars
    <3> QED  BY <2>1, <2>2, <3>1 DEF Trained
  <2>5. CASE queue' = queue /\ got' = got  BY <2>1, <2>2, <2>5 DEF Trained
  <2> QED  BY <1>0, <1>3, <2>3, <2>4, <2>5 DEF Written
<1> QED  BY <1>2, <1>3

LEMMA HandMoves ==
  ASSUME SyncInv, FlowInv, ProcessorSafe, [Next]_vars, NEW s \in Samples
  PROVE  /\ In(cancelQueue', s) /\ ~In(cancelQueue, s) => task[s] = "cancelled"
         /\ In(cancelQueue, s) /\ ~In(cancelQueue', s) => s = hand'
         /\ s = hand' /\ s /= hand => In(cancelQueue, s) \/ (ProcTakes /\ s = TakenTo + 1)
         /\ s = hand /\ s /= hand' => task'[s] = "created"
         /\ ProcTakes /\ s = TakenTo + 1 => s = hand'
         /\ TaskEnds(s) /\ task[s] = "cancelled" => In(cancelQueue', s)
<1>0. /\ Written /\ FlowType /\ PlacedOnce(s)
      /\ cancelQueue \in Seq(Samples) /\ task \in [Samples -> TaskStates] /\ Once(cancelQueue, s)
  BY Frames DEF SyncInv, FlowInv, FlowType, PlacedOnce
<1>1. CASE ProcTakesCancelled
  <2>1. hand' = Head(cancelQueue) /\ cancelQueue' = Tail(cancelQueue) /\ cancelQueue /= <<>> /\ pc["proc"] = "top"
        /\ task' = task
    BY <1>1 DEF ProcTakesCancelled
  <2>2. In(cancelQueue, Head(cancelQueue))
        /\ (In(Tail(cancelQueue), s) <=> In(cancelQueue, s) /\ s /= Head(cancelQueue))
    BY <1>0, <2>1, HeadLeaves
  <2>3. hand = NoSample  BY <1>0, <2>1 DEF FlowType, InHand
  <2>4. ~ProcTakes  BY <2>1 DEF ProcTakes
  <2>5. ~TaskEnds(s)
    <3> SUFFICES ASSUME TaskEnds(s) PROVE FALSE  OBVIOUS
    <3>1. task[s] /= "none" /\ task'[s] = "none"  BY <1>0 DEF TaskEnds
    <3> QED  BY <2>1, <3>1
  <2> QED  BY <2>1, <2>2, <2>3, <2>4, <2>5, Sizes
<1>2. CASE ProcTakes
  <2>1. hand' = (IF Head(pendingQueue) = End THEN NoSample ELSE Head(pendingQueue)) /\ cancelQueue' = cancelQueue
        /\ pc["proc"] \in {"top", "takes"} /\ task' = task
    BY <1>2 DEF ProcTakes
  <2>2. Head(pendingQueue) = TakenTo + 1
    <3>1. /\ pendingQueue \in Seq(Nat) /\ pendingQueue /= <<>>
          /\ \A i \in 1 .. Len(pendingQueue) : pendingQueue[i] = TakenTo + i
      BY <1>0, <1>2 DEF ProcTakes, FlowType
    <3>2. Head(pendingQueue) = pendingQueue[1] /\ 1 \in 1 .. Len(pendingQueue)
      BY <3>1, EmptySeq, LenProperties
    <3> QED  BY <3>1, <3>2
  <2>3. hand = NoSample  BY <1>0, <2>1 DEF FlowType, InHand
  <2>4. ~TaskEnds(s)
    <3> SUFFICES ASSUME TaskEnds(s) PROVE FALSE  OBVIOUS
    <3>1. task[s] /= "none" /\ task'[s] = "none"  BY <1>0 DEF TaskEnds
    <3> QED  BY <2>1, <3>1
  <2> QED  BY <1>2, <2>1, <2>2, <2>3, <2>4, Sizes
<1>3. CASE ProcSubmits
  <2>1. task' = [task EXCEPT ![hand] = "created"] /\ cancelQueue' = cancelQueue /\ pc["proc"] = "submit"
        /\ hand' = NoSample
    BY <1>3 DEF ProcSubmits
  <2>2. ~ProcTakes /\ ~TaskEnds(s)  BY <1>0, <2>1 DEF ProcTakes, TaskEnds
  <2> QED  BY <1>0, <2>1, <2>2, Sizes
<1>4. ASSUME NEW t \in Samples, TaskEnds(t), ~ProcTakes
      PROVE  /\ In(cancelQueue', s) /\ ~In(cancelQueue, s) => task[s] = "cancelled"
             /\ In(cancelQueue, s) => In(cancelQueue', s)
             /\ hand' = hand
             /\ s = t /\ task[s] = "cancelled" => In(cancelQueue', s)
  <2>1. hand' = hand /\ cancelQueue' = (IF task[t] = "cancelled" THEN Append(cancelQueue, t) ELSE cancelQueue)
    BY <1>4 DEF TaskEnds
  <2>2. In(Append(cancelQueue, t), s) <=> In(cancelQueue, s) \/ t = s  BY <1>0, Appended
  <2> QED  BY <2>1, <2>2
<1>5. CASE ~ProcTakesCancelled /\ ~ProcTakes /\ ~ProcSubmits
  <2>1. hand' = hand  BY <1>0, <1>5 DEF Written
  <2>2. CASE \E t \in Samples : TaskEnds(t)
    <3>1. PICK t \in Samples : TaskEnds(t)  BY <2>2
    <3>2. TaskEnds(s) => s = t
      <4> SUFFICES ASSUME TaskEnds(s) PROVE s = t  OBVIOUS
      <4>1. Runs(Task(s)) /\ Runs(Task(t))  BY <3>1 DEF TaskEnds
      <4> QED  BY <4>1 DEF Runs, Task
    <3> QED  BY <1>4, <1>5, <2>1, <3>1, <3>2
  <2>3. CASE ~\E t \in Samples : TaskEnds(t)
    <3>1. cancelQueue' = cancelQueue  BY <1>0, <1>5, <2>3 DEF Written
    <3> QED  BY <1>5, <2>1, <2>3, <3>1
  <2> QED  BY <2>2, <2>3
<1> QED  BY <1>1, <1>2, <1>3, <1>5

LEMMA HeldMoves ==
  ASSUME SyncInv, FlowInv, GivenInv, EndInv, NoneFails, ProcessorSafe, [Next]_vars, NEW s \in Samples
  PROVE  /\ s \in Held' /\ s \notin Held => ProcTakes /\ s = TakenTo + 1
         /\ ProcTakes /\ s = TakenTo + 1 => s \in Held'
         /\ s \in Held /\ s \notin Held' => s \in Trained' \/ Dropped(s)
         /\ Dropped(s) => s \in Held /\ s \notin Held'
<1>1. s \in Held <=> task[s] \notin {"none", "put"} \/ In(cancelQueue, s) \/ In(queue, s) \/ s = hand
  BY DEF Held, Handed, Waiting, InTask, InCancel, InQueue
<1>2. s \in Held' <=> task'[s] \notin {"none", "put"} \/ In(cancelQueue', s) \/ In(queue', s) \/ s = hand'
  BY DEF Held, Handed, Waiting, InTask, InCancel, InQueue
<1>3. /\ In(cancelQueue', s) /\ ~In(cancelQueue, s) => task[s] = "cancelled"
      /\ In(cancelQueue, s) /\ ~In(cancelQueue', s) => s = hand'
      /\ s = hand' /\ s /= hand => In(cancelQueue, s) \/ (ProcTakes /\ s = TakenTo + 1)
      /\ s = hand /\ s /= hand' => task'[s] = "created"
      /\ ProcTakes /\ s = TakenTo + 1 => s = hand'
      /\ TaskEnds(s) /\ task[s] = "cancelled" => In(cancelQueue', s)
  BY HandMoves
<1>4. /\ In(queue, s) /\ ~In(queue', s) => s \in Trained' \/ Dropped(s)
      /\ task[s] = "putting" /\ task'[s] = "put" => In(queue', s)
      /\ Dropped(s) => In(queue, s) /\ ~In(queue', s) /\ task'[s] = task[s]
  BY QueueMoves
<1>5. In(queue', s) => In(queue, s) \/ task[s] = "putting"  BY NextQueued DEF PutArrives
<1>6. TaskMoves(s) /\ task[s] /= "raised"  BY NextTask DEF NoneFails
<1>7. task'[s] \notin {"none", "put"} => task[s] \notin {"none", "put"} \/ s = hand  BY <1>6 DEF TaskMoves
<1>8. task[s] \notin {"none", "put"} /\ task'[s] \in {"none", "put"} => In(queue', s) \/ In(cancelQueue', s)
  <2>1. TaskMoves(s) => \/ task[s] = "putting" /\ task'[s] = "put"
                        \/ TaskEnds(s) /\ task[s] \in {"put", "cancelled", "raised"}
                        \/ ~(task[s] \notin {"none", "put"} /\ task'[s] \in {"none", "put"})
    BY DEF TaskMoves
  <2> QED  BY <1>3, <1>4, <1>6, <2>1
<1>9. Dropped(s) => s /= hand' /\ ~In(cancelQueue', s) /\ task'[s] \in {"none", "put"}
  <2> SUFFICES ASSUME Dropped(s) PROVE s /= hand' /\ ~In(cancelQueue', s) /\ task'[s] \in {"none", "put"}  OBVIOUS
  <2>1. hand' = hand /\ cancelQueue' = cancelQueue
    BY DEF Dropped, Puts, FinishSignalArrives, PutArrives, flowVars
  <2>2. task[s] \in {"none", "put"} /\ s /= hand /\ ~In(cancelQueue, s)  BY <1>4 DEF FlowInv, PlacedOnce
  <2> QED  BY <1>4, <2>1, <2>2
<1> QED  BY <1>1, <1>2, <1>3, <1>4, <1>5, <1>7, <1>8, <1>9
-----------------------------------------------------------------------------
(* A sample is lost only to a full queue, and at most one a version.       *)

LEMMA InitLoss == Init => LossInv
<1> SUFFICES ASSUME Init PROVE LossInv  OBVIOUS
<1>1. /\ pc["feed"] = "none" /\ pc["proc"] = "none" /\ pc["update"] = "none" /\ globalSteps = 1
      /\ pendingQueue = <<>> /\ stalenessSamples = 0 /\ rolloutVersion = 0 /\ droppedSamples = 0
      /\ cancelQueue = <<>> /\ queue = <<>> /\ hand = NoSample
      /\ \A s \in Samples : task[s] = "none"
  BY DEF Init, RolloutInit, SharedInit, Names
<1>2. TakenTo = 0 /\ Counted = 0  BY <1>1, EmptySeq DEF TakenTo, FedTo, Counted
<1>3. Held = {}
  BY <1>1, Sizes DEF Held, Handed, Waiting, InTask, InCancel, InQueue, In
<1>4. Lost = {}  BY <1>2, SharedAssumption DEF Lost, Samples
<1>5. Load = 0  BY <1>2, <1>3, FS_EmptySet, Sizes DEF Load
<1> QED  BY <1>1, <1>2, <1>4, <1>5, FS_EmptySet, Sizes DEF LossInv

\* Taken samples are held, with the trainer, or lost.
LEMMA Whereabouts ==
  ASSUME FlowInv, NEW s \in Samples
  PROVE  /\ s \in Held => s <= TakenTo /\ s \notin Trained
         /\ s \in Trained => s <= TakenTo
         /\ s \in Held <=> task[s] \notin {"none", "put"} \/ In(cancelQueue, s) \/ In(queue, s) \/ s = hand
<1>1. s \in Held <=> task[s] \notin {"none", "put"} \/ In(cancelQueue, s) \/ In(queue, s) \/ s = hand
  BY DEF Held, Handed, Waiting, InTask, InCancel, InQueue
<1>2. TakenTo \in Nat /\ s \in Nat /\ PlacedOnce(s)  BY TakenUpTo, Sizes DEF Samples, FlowInv
<1>3. s > TakenTo \/ s <= TakenTo  BY <1>2
<1> QED  BY <1>1, <1>2, <1>3 DEF PlacedOnce

LEMMA LostMoves ==
  ASSUME SyncInv, FlowInv, FlowInv', GivenInv, EndInv, NoneFails, ProcessorSafe, [Next]_vars, NEW s \in Samples
  PROVE  s \in Lost' <=> s \in Lost \/ Dropped(s)
<1>1. /\ s \in Held' /\ s \notin Held => ProcTakes /\ s = TakenTo + 1
      /\ ProcTakes /\ s = TakenTo + 1 => s \in Held'
      /\ s \in Held /\ s \notin Held' => s \in Trained' \/ Dropped(s)
      /\ Dropped(s) => s \in Held /\ s \notin Held'
  BY HeldMoves
<1>2. /\ s \in Trained' /\ s \notin Trained => In(queue, s)
      /\ s \in Trained => s \in Trained'
      /\ Dropped(s) => Trained' = Trained
  BY QueueMoves
<1>3. /\ s \in Held => s <= TakenTo /\ s \notin Trained
      /\ s \in Trained => s <= TakenTo
      /\ In(queue, s) => s \in Held
  BY Whereabouts
<1>4. TakenTo \in Nat /\ s \in Nat /\ (TakenTo' = TakenTo \/ (ProcTakes /\ TakenTo' = TakenTo + 1))
  BY NextTaken, Sizes DEF Samples
<1>5. s <= TakenTo' <=> s <= TakenTo \/ (s = TakenTo + 1 /\ TakenTo' = TakenTo + 1)  BY <1>4
<1>6. (s \in Lost <=> s <= TakenTo /\ s \notin Held /\ s \notin Trained)
      /\ (s \in Lost' <=> s <= TakenTo' /\ s \notin Held' /\ s \notin Trained')
  BY DEF Lost
<1>7. s = TakenTo + 1 => ~(s <= TakenTo)  BY <1>4
<1>8. TakenTo' = TakenTo + 1 => ProcTakes  BY <1>4
<1> QED  BY <1>1, <1>2, <1>3, <1>5, <1>6, <1>7, <1>8

\* The members of a queue without its end marker.
LEMMA QueueHeld ==
  ASSUME FlowInv, ~In(queue, End)
  PROVE  Len(queue) \in Nat /\ Len(queue) <= Cardinality(InQueue)
<1> DEFINE I == 1 .. Len(queue)
           f == [i \in I |-> queue[i]]
<1>1. queue \in Seq(1 .. End) /\ Len(queue) \in Nat  BY LenProperties DEF FlowInv, FlowType
<1>2. \A i \in I : queue[i] \in Samples
  <2> SUFFICES ASSUME NEW i \in I PROVE queue[i] \in Samples  OBVIOUS
  <2>1. queue[i] \in 1 .. End /\ queue[i] /= End  BY <1>1, ElementOfSeq DEF In
  <2> QED  BY <2>1, Sizes DEF Samples
<1>3. \A i, j \in I : queue[i] = queue[j] => i = j
  <2> SUFFICES ASSUME NEW i \in I, NEW j \in I, queue[i] = queue[j] PROVE i = j  OBVIOUS
  <2>1. Once(queue, queue[i])  BY <1>2 DEF FlowInv, PlacedOnce
  <2> QED  BY <2>1 DEF Once
<1>4. \A i \in I : queue[i] \in InQueue  BY <1>2 DEF InQueue, In
<1>5. f \in Injection(I, InQueue)  BY <1>3, <1>4 DEF Injection, IsInjective
<1>6. IsFiniteSet(InQueue) /\ Cardinality(InQueue) \in Nat  BY Finite, HeldSets
<1>7. Cardinality(I) <= Cardinality(InQueue)  BY <1>5, <1>6, FS_Injection
<1>8. Cardinality(I) = Len(queue)  BY <1>1, FS_Interval, SMTT(60)
<1> QED  BY <1>1, <1>7, <1>8

\* A step that drops a sample finds the load at its bound.
LEMMA Drops ==
  ASSUME AsyncInv, AsyncInv', GivenInv, OverInv, FinalInv, EndInv, NoneFails, ProcessorSafe, [Next]_vars,
         NEW d \in Samples, Dropped(d)
  PROVE  /\ Lost' = Lost \union {d} /\ d \notin Lost /\ droppedSamples' = droppedSamples + 1
         /\ Load > MaxRequiredSamples /\ Load' <= Load - 1
         /\ UNCHANGED <<stalenessSamples, rolloutVersion>> /\ pc'["proc"] = pc["proc"] /\ pc'["update"] = pc["update"]
<1>0. SyncInv /\ SyncType /\ FlowInv /\ FlowInv'  BY DEF AsyncInv, SyncInv
<1>1. Puts /\ MQ!Full  BY DEF Dropped
<1>2. ~In(queue, End) /\ End \notin Trained  BY <1>1, PutsFirst DEF Puts
<1>3. PICK x \in 1 .. End : MQ!PutSample(x) /\ ((FinishSignalArrives /\ x = End) \/ (x \in Samples /\ PutArrives(x)))
  BY <1>1, Sizes DEF Puts, FinishSignalArrives, PutArrives, Samples
<1>4. /\ UNCHANGED <<pendingQueue, globalSteps, stalenessSamples, rolloutVersion>>
      /\ \A n \in Names \ {"main"} : pc'[n] = pc[n]
  BY <1>0, <1>3 DEF FinishSignalArrives, PutArrives, Goto, flowVars, restVars, SyncType, Names
<1>5. pc'["proc"] = pc["proc"] /\ pc'["update"] = pc["update"] /\ pc'["feed"] = pc["feed"]  BY <1>4 DEF Names
<1>6. TakenTo' = TakenTo  BY <1>4, <1>5 DEF TakenTo, FedTo
<1>7. \A s \in Samples : s \in Lost' <=> s \in Lost \/ Dropped(s)  BY <1>0, LostMoves
<1>8. \A s \in Samples : Dropped(s) <=> s = d  BY DEF Dropped
<1>9. d \in Held /\ d \notin Held' /\ Trained' = Trained /\ d \notin Lost
  <2>1. d \in Held /\ d \notin Held'  BY <1>0, HeldMoves
  <2>2. Trained' = Trained  BY <1>0, QueueMoves
  <2> QED  BY <2>1, <2>2 DEF Lost
<1>10. Lost' = Lost \union {d}
  <2>1. Lost \subseteq Samples /\ Lost' \subseteq Samples  BY DEF Lost
  <2> QED  BY <1>7, <1>8, <2>1
<1>11. droppedSamples' = droppedSamples + 1  BY <1>1, <1>3 DEF MQ!PutSample
<1>12. Held' \subseteq Held \ {d}
  <2> SUFFICES ASSUME NEW s \in Held' PROVE s \in Held /\ s /= d  OBVIOUS
  <2>1. s \in Samples  BY DEF Held, Handed, Waiting, InTask, InCancel, InQueue
  <2>2. s \in Held \/ (ProcTakes /\ s = TakenTo + 1)  BY <1>0, <2>1, HeldMoves
  <2>3. ~ProcTakes
    <3>2. ProcTakes => pc'["proc"] = "loop" /\ pc["proc"] \in {"top", "takes"}
      BY <1>0 DEF ProcTakes, SyncType, Names
    <3> QED  BY <1>5, <3>2
  <2> QED  BY <1>9, <2>2, <2>3
<1>13. Cardinality(Held') <= Cardinality(Held) - 1 /\ Cardinality(Held') \in Nat /\ Cardinality(Held) \in Nat
  <2>1. Held \in SUBSET Samples /\ IsFiniteSet(Held)  BY HeldSets, Finite
  <2>2. IsFiniteSet(Held \ {d}) /\ Cardinality(Held \ {d}) = Cardinality(Held) - 1
    BY <1>9, <2>1, FS_RemoveElement
  <2>3. Held' \in SUBSET Samples /\ Held \ {d} \in SUBSET Samples  BY <1>12, <2>1
  <2>4. Cardinality(Held') <= Cardinality(Held \ {d})  BY <1>12, <2>3, Finite
  <2> QED  BY <2>1, <2>2, <2>3, <2>4, Finite
<1>14. Load' <= Load - 1  BY <1>6, <1>9, <1>13 DEF Load
<1>15. Cardinality(InQueue) >= MaxRequiredSamples /\ Cardinality(InQueue) \in Nat /\ IsFiniteSet(InQueue)
       /\ MaxRequiredSamples \in Nat
  <2>1. Len(queue) >= MaxRequiredSamples  BY <1>1 DEF MQ!Full
  <2>2. Len(queue) <= Cardinality(InQueue) /\ Len(queue) \in Nat  BY <1>0, <1>2, QueueHeld
  <2> QED  BY <2>1, <2>2, Finite, HeldSets
<1>16. Load > MaxRequiredSamples
  <2>1. CASE FinishSignalArrives
    <3>1. pc["proc"] = "done"  BY <2>1 DEF FinishSignalArrives, OverInv, ProcOver, ProcessorSafe
    <3>2. TakenTo = End  BY <3>1 DEF FinalInv
    <3>3. Load = Cardinality(Held) + 1  BY <1>2, <3>2 DEF Load
    <3>4. InQueue \in SUBSET Held /\ Held \in SUBSET Samples  BY HeldSets DEF Held, Handed
    <3>5. Cardinality(InQueue) <= Cardinality(Held)  BY <3>4, Finite
    <3> QED  BY <1>13, <1>15, <3>3, <3>5
  <2>2. CASE x \in Samples /\ PutArrives(x)
    <3>1. task[x] = "putting"  BY <2>2 DEF PutArrives
    <3>2. x \in Held /\ ~In(queue, x)  BY <1>0, <2>2, <3>1 DEF Held, Handed, Waiting, InTask, FlowInv, PlacedOnce
    <3>3. x \notin InQueue /\ InQueue \union {x} \in SUBSET Held /\ Held \in SUBSET Samples
      BY <3>2, HeldSets DEF Held, Handed, InQueue
    <3>4. Cardinality(InQueue \union {x}) = Cardinality(InQueue) + 1  BY <1>15, <3>3, FS_AddElement
    <3>5. Cardinality(InQueue \union {x}) <= Cardinality(Held)  BY <3>3, Finite
    <3>6. Load >= Cardinality(Held)  BY <1>13 DEF Load
    <3>7. Load \in Nat  BY <1>13 DEF Load
    <3> QED  BY <1>13, <1>15, <3>4, <3>5, <3>6, <3>7
  <2> QED  BY <1>3, <2>1, <2>2
<1> QED  BY <1>4, <1>5, <1>9, <1>10, <1>11, <1>14, <1>16

\* Any other takes a sample more, at most.
LEMMA Loads ==
  ASSUME AsyncInv, AsyncInv', GivenInv, OverInv, FinalInv, EndInv, NoneFails, ProcessorSafe, [Next]_vars,
         \A d \in Samples : ~Dropped(d), droppedSamples \in Nat
  PROVE  /\ Lost' = Lost /\ droppedSamples' = droppedSamples
         /\ Load \in Nat /\ Load' \in Nat
         /\ ~ProcTakes => Load' <= Load
         /\ Load' <= Load + 1
<1>0. Written /\ SyncInv /\ SyncType /\ FlowInv /\ FlowInv'  BY Frames DEF AsyncInv, SyncInv
<1>1. Lost' = Lost
  <2>1. \A s \in Samples : s \in Lost' <=> s \in Lost  BY <1>0, LostMoves
  <2>2. Lost \subseteq Samples /\ Lost' \subseteq Samples  BY DEF Lost
  <2> QED  BY <2>1, <2>2
<1>2. droppedSamples' = droppedSamples
  <2> SUFFICES ASSUME droppedSamples' /= droppedSamples PROVE FALSE  OBVIOUS
  <2>1. Puts  BY <1>0 DEF Written
  <2>2. PICK x \in 1 .. End : MQ!PutSample(x)
    BY <2>1, Sizes DEF Puts, FinishSignalArrives, PutArrives, Samples
  <2>3. PICK u \in Samples : u = 1  BY SharedAssumption DEF Samples
  <2>4. /\ queue \in Seq(1 .. End) /\ MaxRequiredSamples \in Nat \ {0}
        /\ ~In(queue, End)
    BY <1>0, <2>1, PutsFirst, Sizes DEF FlowInv, FlowType, Puts
  <2>5. CASE MQ!Full
    <3>1. queue /= <<>>  BY <1>0, <2>2, <2>3, <2>5, PutLeaves
    <3>2. Head(queue) \in 1 .. End /\ In(queue, Head(queue))  BY <2>4, <3>1, HeadLeaves
    <3>3. Head(queue) /= End  BY <2>4, <3>2
    <3>4. Head(queue) \in Samples  BY <3>2, <3>3, Sizes DEF Samples
    <3> QED  BY <2>1, <2>5, <3>4 DEF Dropped
  <2>6. CASE ~MQ!Full
    <3>1. droppedSamples' = droppedSamples + 0  BY <2>2, <2>6 DEF MQ!PutSample
    <3> QED  BY <3>1
  <2> QED  BY <2>5, <2>6
<1>3. Held \in SUBSET Samples /\ Held' \in SUBSET Samples
  BY HeldSets DEF Held, Handed, Waiting, InTask, InCancel, InQueue
<1>4. Cardinality(Held) \in Nat /\ Cardinality(Held') \in Nat  BY <1>3, Finite
<1>5. Load \in Nat /\ Load' \in Nat  BY <1>4 DEF Load
<1>6. TakenTo \in Nat /\ (TakenTo' = TakenTo \/ (ProcTakes /\ TakenTo' = TakenTo + 1))  BY <1>0, NextTaken
<1>7. End \in Trained => End \in Trained'
  <2>1. CASE Collects
    <3>1. Trained' = Trained \union {Head(queue)}  BY <1>0, <2>1, Collected DEF Collects
    <3> QED  BY <3>1
  <2> QED  BY <1>0, <2>1 DEF Written, Trained
<1>8. CASE ~ProcTakes
  <2>1. Held' \subseteq Held
    <3> SUFFICES ASSUME NEW s \in Held' PROVE s \in Held  OBVIOUS
    <3> QED  BY <1>0, <1>3, <1>8, HeldMoves
  <2>2. Cardinality(Held') <= Cardinality(Held)  BY <1>3, <2>1, Finite
  <2>3. TakenTo' = TakenTo  BY <1>6, <1>8
  <2>4. Load' <= Load  BY <1>4, <1>7, <2>2, <2>3 DEF Load
  <2> QED  BY <1>1, <1>2, <1>5, <2>4
<1>9. CASE ProcTakes
  <2>1. Held' \subseteq Held \union {TakenTo + 1}
    <3> SUFFICES ASSUME NEW s \in Held', s \notin Held PROVE s = TakenTo + 1  OBVIOUS
    <3> QED  BY <1>0, <1>3, HeldMoves
  <2>2. CASE TakenTo' = End
    <3>1. Held' \subseteq Held \/ TakenTo' = TakenTo
      BY <1>3, <1>6, <2>1, <2>2, Sizes
    <3>2. TakenTo /= End
      BY <1>9 DEF FinalInv, ProcTakes
    <3>3. Held' \subseteq Held  BY <2>2, <3>1, <3>2
    <3>4. Cardinality(Held') <= Cardinality(Held)  BY <1>3, <3>3, Finite
    <3>5. Load = Cardinality(Held)  BY <1>4, <3>2 DEF Load
    <3>6. Load' <= Cardinality(Held') + 1  BY <1>4 DEF Load
    <3> QED  BY <1>1, <1>2, <1>4, <1>5, <1>9, <3>4, <3>5, <3>6
  <2>3. CASE TakenTo' /= End
    <3>1. Cardinality(Held') <= Cardinality(Held) + 1  BY <1>3, <2>1, OneMore
    <3>2. Load' = Cardinality(Held')  BY <1>4, <2>3 DEF Load
    <3>3. Load >= Cardinality(Held)  BY <1>4 DEF Load
    <3> QED  BY <1>1, <1>2, <1>4, <1>5, <1>9, <3>1, <3>2, <3>3
  <2> QED  BY <2>2, <2>3
<1> QED  BY <1>8, <1>9

LEMMA NextLoss ==
  ASSUME AsyncInv, AsyncInv', CountInv, GivenInv, OverInv, FinalInv, EndInv, NoneFails, ProcessorSafe, LossInv,
         [Next]_vars
  PROVE  LossInv'
<1>0. Written /\ Moved /\ SyncInv /\ SyncType /\ FlowInv  BY Frames DEF AsyncInv, SyncInv
<1>1. /\ droppedSamples \in Nat /\ Counted \in Nat /\ stalenessSamples \in Nat /\ snapshot \in Nat
      /\ MaxRequiredSamples \in Nat
  BY Sizes DEF LossInv, CountInv
<1>2. Load \in Nat
  <2>1. Cardinality(Held) \in Nat  BY HeldSets, Finite
  <2> QED  BY <2>1 DEF Load
<1>3. CASE \E d \in Samples : Dropped(d)
  <2>1. PICK d \in Samples : Dropped(d)  BY <1>3
  <2>2. /\ Lost' = Lost \union {d} /\ d \notin Lost /\ droppedSamples' = droppedSamples + 1
        /\ Load > MaxRequiredSamples /\ Load' <= Load - 1
        /\ UNCHANGED <<stalenessSamples, rolloutVersion>> /\ pc'["proc"] = pc["proc"] /\ pc'["update"] = pc["update"]
    BY <2>1, Drops
  <2>3. Counted' = Counted  BY <2>2 DEF Counted
  <2>4. Cardinality(Lost') = Cardinality(Lost) + 1
    <3>1. Lost \in SUBSET Samples  BY DEF Lost
    <3>2. IsFiniteSet(Lost)  BY <3>1, Finite
    <3> QED  BY <2>2, <3>2, FS_AddElement
  <2>5. Load' \in Int
    <3>1. Held' \in SUBSET Samples  BY DEF Held, Handed, Waiting, InTask, InCancel, InQueue
    <3>2. Cardinality(Held') \in Nat  BY <3>1, Finite
    <3> QED  BY <3>2 DEF Load
  <2> QED  BY <1>1, <1>2, <2>2, <2>3, <2>4, <2>5 DEF LossInv
<1>4. CASE \A d \in Samples : ~Dropped(d)
  <2>1. /\ Lost' = Lost /\ droppedSamples' = droppedSamples /\ Load' \in Nat
        /\ ~ProcTakes => Load' <= Load
        /\ Load' <= Load + 1
    BY <1>1, <1>4, Loads
  <2>2. \/ Counted' = Counted /\ ~UpdateResets
        \/ UpdateResets /\ Counted' = Counted + 1 /\ pc'["proc"] = pc["proc"]
    BY <1>1, NextCounted
  <2>3. CASE UpdateResets
    <3>1. stalenessSamples' = snapshot /\ ~ProcTakes /\ pc["update"] = "sized"
      BY <2>3 DEF UpdateResets, ProcTakes, Runs, Co
    <3>2. Load <= Cardinality(Handed) + 1
      <4>1. Held \in SUBSET Samples /\ Handed \in SUBSET Samples /\ Held \subseteq Handed \union {hand}
        BY HeldSets DEF Held
      <4>2. Cardinality(Held) \in Nat /\ Cardinality(Handed) \in Nat /\ Cardinality(Held) <= Cardinality(Handed) + 1
        BY <4>1, Finite, OneMore
      <4>3. TakenTo = End => Cardinality(Held) <= Cardinality(Handed)
        <5> SUFFICES ASSUME TakenTo = End PROVE Cardinality(Held) <= Cardinality(Handed)  OBVIOUS
        <5>1. hand = NoSample
          BY <1>0 DEF FinalInv, FlowInv, FlowType, InHand, ProcessorSafe
        <5>2. Held = Handed  BY <5>1, Sizes DEF Held
        <5> QED  BY <4>2, <5>2
      <4> QED  BY <4>2, <4>3 DEF Load
    <3>3. Cardinality(Handed) <= snapshot  BY <3>1 DEF CountInv
    <3>4. Cardinality(Handed) \in Nat  BY HeldSets, Finite
    <3>5. Load' <= stalenessSamples' + 1 /\ Load' <= Load  BY <1>1, <1>2, <2>1, <3>1, <3>2, <3>3, <3>4
    <3>6. Counted' = Counted + 1 /\ pc'["proc"] = pc["proc"]  BY <2>2, <2>3
    <3>7. droppedSamples' < Counted' /\ Load' <= MaxRequiredSamples + 1
      BY <1>1, <1>2, <2>1, <3>5, <3>6 DEF LossInv
    <3>8. pc'["proc"] \in {"getting", "takes"} => Load' <= MaxRequiredSamples
      BY <1>1, <1>2, <2>1, <3>5, <3>6 DEF LossInv
    <3> QED  BY <1>1, <2>1, <3>5, <3>6, <3>7, <3>8 DEF LossInv
  <2>4. CASE ProcTakes
    <3>1. Counted' = Counted /\ stalenessSamples' = stalenessSamples + 1 /\ pc'["proc"] = "loop"
      <4>1. Counted' = Counted  BY <2>2, <2>4 DEF ProcTakes, UpdateResets, Runs, Co
      <4> QED  BY <1>0, <2>4, <4>1 DEF ProcTakes, SyncType, Names
    <3>2. \/ pc["proc"] = "top" /\ stalenessSamples < MaxRequiredSamples
          \/ pc["proc"] = "takes"
      BY <1>1, <2>4 DEF ProcTakes, ShouldPause
    <3>3. Load <= MaxRequiredSamples /\ (Load = MaxRequiredSamples => droppedSamples < Counted)
      BY <1>1, <1>2, <3>2 DEF LossInv
    <3>4. Load <= stalenessSamples + 1 /\ (Load > stalenessSamples => droppedSamples < Counted)
          /\ droppedSamples <= Counted /\ Cardinality(Lost) = droppedSamples
      BY DEF LossInv
    <3>5. /\ Load' <= stalenessSamples' + 1 /\ Load' <= MaxRequiredSamples + 1
          /\ Load' > stalenessSamples' \/ Load' > MaxRequiredSamples => droppedSamples < Counted
      BY <1>1, <1>2, <2>1, <3>1, <3>3, <3>4
    <3> QED  BY <1>1, <2>1, <3>1, <3>4, <3>5 DEF LossInv
  <2>5. CASE ~UpdateResets /\ ~ProcTakes
    <3>1. Counted' = Counted /\ stalenessSamples' = stalenessSamples /\ Load' <= Load
      BY <1>0, <2>1, <2>2, <2>5 DEF Written
    <3>2. ASSUME pc'["proc"] \in {"getting", "takes"}
          PROVE  Load <= MaxRequiredSamples /\ (Load = MaxRequiredSamples => droppedSamples < Counted)
      <4>1. CASE pc["proc"] \in {"getting", "takes"}  BY <4>1 DEF LossInv
      <4>2. CASE pc["proc"] \notin {"getting", "takes"}
        <5>1. ProcAwaitsSample  BY <1>0, <3>2, <4>2, AwaitsSample
        <5>2. stalenessSamples < MaxRequiredSamples  BY <1>1, <5>1 DEF ProcAwaitsSample, ShouldPause
        <5> QED  BY <1>1, <1>2, <5>2 DEF LossInv
      <4> QED  BY <4>1, <4>2
    <3>3. pc'["proc"] \in {"getting", "takes"} =>
            Load' <= MaxRequiredSamples /\ (Load' = MaxRequiredSamples => droppedSamples < Counted)
      BY <1>1, <1>2, <2>1, <3>1, <3>2
    <3>4. /\ Load' <= stalenessSamples' + 1 /\ Load' <= MaxRequiredSamples + 1
          /\ Load' > stalenessSamples' \/ Load' > MaxRequiredSamples => droppedSamples < Counted
      BY <1>1, <1>2, <2>1, <3>1 DEF LossInv
    <3> QED  BY <1>1, <2>1, <3>1, <3>3, <3>4 DEF LossInv
  <2> QED  BY <2>3, <2>4, <2>5
<1> QED  BY <1>3, <1>4

LEMMA GoneLost ==
  ASSUME FlowInv
  PROVE  Gone = Lost
<1>1. ASSUME NEW s \in Samples PROVE s \in Gone <=> s \in Lost
  <2>1. s \in Gone <=> /\ s \in Fed /\ s \notin RangeOf(pendingQueue \o cancelQueue \o queue)
                       /\ s \notin Trained /\ s /= hand /\ task[s] \in {"none", "put"}
    BY DEF Gone, Given, Trained
  <2>2. s \in Fed /\ ~In(pendingQueue, s) <=> s <= TakenTo  BY InQueues, TakenUpTo DEF Taken
  <2>3. s \in Held <=> task[s] \notin {"none", "put"} \/ In(cancelQueue, s) \/ In(queue, s) \/ s = hand
    BY Whereabouts
  <2> QED  BY <2>1, <2>2, <2>3, InQueues DEF Lost
<1>2. Gone \subseteq Samples /\ Lost \subseteq Samples  BY DEF Gone, Fed, Lost
<1> QED  BY <1>1, <1>2

LEMMA PlacesKept == ASSUME MaxFailures = 0 PROVE Spec /\ []ProcessorSafe => []PlaceInv
<1>1. Init => PlaceInv
  BY InitOrder, InitOver, InitFinal, InitEnd, InitNone, InitLoss DEF PlaceInv
<1>2. ASSUME PlaceInv, ProcessorSafe, [Next]_vars PROVE PlaceInv'
  <2>1. AsyncInv /\ CountInv /\ GivenInv /\ LagInv /\ OrderInv /\ OrderInv' /\ AsyncInv'
    BY <1>2, NextOrder DEF PlaceInv, OrderInv
  <2>2. OverInv' /\ FinalInv' /\ EndInv' /\ NoneFails'
    BY <1>2, <2>1, NextOver, NextFinal, NextEnd, NextFails DEF PlaceInv
  <2>3. LossInv'  BY <1>2, <2>1, NextLoss DEF PlaceInv
  <2> QED  BY <2>1, <2>2, <2>3 DEF PlaceInv
<1> QED  BY <1>1, <1>2, PTL DEF Spec

\* While the processor runs or ends as it should, no sample is doubled, none lost
\* but to the full queue, and to that at most one a version.
LEMMA OnePlaceKept == ASSUME MaxFailures = 0 PROVE Spec /\ []ProcessorSafe => []OnePlace
<1>1. PlaceInv /\ NoneDoubled => OnePlace
  <2> SUFFICES ASSUME PlaceInv PROVE Cardinality(Gone) = droppedSamples /\ droppedSamples <= mqVersion
    BY DEF OnePlace
  <2>1. SyncInv /\ FlowInv  BY DEF PlaceInv, OrderInv, AsyncInv
  <2>2. Cardinality(Gone) = droppedSamples /\ droppedSamples <= Counted /\ droppedSamples \in Nat /\ Counted \in Nat
    BY <2>1, GoneLost DEF PlaceInv, LossInv
  <2>3. Counted <= mqVersion /\ mqVersion \in Nat
    BY <2>1, <2>2 DEF SyncInv, SyncType, VersionsAt, Counted
  <2> QED  BY <2>2, <2>3
<1> QED  BY <1>1, PlacesKept, NoneDoubledHolds, PTL

LEMMA AllDeliveredKept ==
  ASSUME MaxFailures = 0, ~PartialRollout PROVE Spec /\ []ProcessorSafe => []AllDelivered
<1>1. Init => NoneCancelled  BY InitNone
<1>2. PlaceInv /\ NoneCancelled /\ [Next]_vars => NoneCancelled'
  BY NextCancelled DEF PlaceInv, OrderInv
<1>3. PlaceInv /\ NoneCancelled /\ ProcessorSafe => AllDelivered
  BY Delivered DEF PlaceInv, OrderInv, AsyncInv, NoneCancelled
<1> QED  BY <1>1, <1>2, <1>3, PlacesKept, PTL DEF Spec
-----------------------------------------------------------------------------
(* Until the processor waits for its tasks the first time, none returns.   *)

\* Who is before c stays there while others come after.
LEMMA BeforeKept ==
  ASSUME NEW T, NEW q \in Seq(T), NEW w \in Seq(T), NEW S, NEW c, ~In(w, c)
  PROVE  /\ Before(q \o w, S, c) <=> Before(q, S, c)
         /\ q /= <<>> /\ Before(Tail(q) \o w, S, c) => Before(q, S, c)
         /\ q /= <<>> /\ Before(q, S, c) /\ Head(q) \notin S => Before(Tail(q) \o w, S, c)
<1> DEFINE r == q \o w
<1>1. /\ Len(q) \in Nat /\ Len(w) \in Nat /\ Len(r) = Len(q) + Len(w)
      /\ \A i \in 1 .. Len(r) : r[i] = IF i <= Len(q) THEN q[i] ELSE w[i - Len(q)]
  BY LenProperties, ConcatProperties
<1>2. \A i \in 1 .. Len(w) : w[i] /= c  BY DEF In
<1>3. \A j \in 1 .. Len(r) : r[j] = c => j \in 1 .. Len(q) /\ q[j] = c
  <2> SUFFICES ASSUME NEW j \in 1 .. Len(r), r[j] = c PROVE j \in 1 .. Len(q) /\ q[j] = c  OBVIOUS
  <2>1. CASE j <= Len(q)  BY <1>1, <2>1
  <2>2. CASE j > Len(q)
    <3>1. j - Len(q) \in 1 .. Len(w) /\ r[j] = w[j - Len(q)]  BY <1>1, <2>2
    <3> QED  BY <1>2, <3>1
  <2> QED  BY <1>1, <2>1, <2>2
<1>4. Before(r, S, c) <=> Before(q, S, c)
  <2>1. ASSUME Before(r, S, c) PROVE Before(q, S, c)
    <3>1. PICK i, j \in 1 .. Len(r) : i < j /\ r[i] \in S /\ r[j] = c  BY <2>1 DEF Before
    <3>2. j \in 1 .. Len(q) /\ q[j] = c  BY <1>3, <3>1
    <3>3. i \in 1 .. Len(q) /\ q[i] \in S  BY <1>1, <3>1, <3>2
    <3> QED  BY <3>1, <3>2, <3>3 DEF Before
  <2>2. ASSUME Before(q, S, c) PROVE Before(r, S, c)
    <3>1. PICK i, j \in 1 .. Len(q) : i < j /\ q[i] \in S /\ q[j] = c  BY <2>2 DEF Before
    <3>2. i \in 1 .. Len(r) /\ j \in 1 .. Len(r) /\ r[i] = q[i] /\ r[j] = q[j]  BY <1>1, <3>1
    <3> QED  BY <3>1, <3>2 DEF Before
  <2> QED  BY <2>1, <2>2
<1>5. ASSUME q /= <<>>
      PROVE  /\ Before(Tail(q) \o w, S, c) => Before(q, S, c)
             /\ Before(q, S, c) /\ Head(q) \notin S => Before(Tail(q) \o w, S, c)
  <2> DEFINE t == Tail(q)
             u == t \o w
  <2>1. /\ t \in Seq(T) /\ Len(t) = Len(q) - 1 /\ Len(q) >= 1 /\ Head(q) = q[1]
        /\ \A i \in 1 .. Len(t) : t[i] = q[i + 1]
    BY <1>5, HeadTailProperties, EmptySeq, LenProperties
  <2>2. /\ Len(u) = Len(t) + Len(w)
        /\ \A i \in 1 .. Len(u) : u[i] = IF i <= Len(t) THEN t[i] ELSE w[i - Len(t)]
    <3>1. t \in Seq(T) /\ w \in Seq(T)  BY <2>1
    <3> HIDE DEF t
    <3> QED  BY <3>1, LenProperties, ConcatProperties
  <2> HIDE DEF t, u
  <2>3. \A j \in 1 .. Len(u) : u[j] = c => j \in 1 .. Len(t)
    <3> SUFFICES ASSUME NEW j \in 1 .. Len(u), u[j] = c, j > Len(t) PROVE FALSE  BY <1>1, <2>1, <2>2
    <3>1. j - Len(t) \in 1 .. Len(w) /\ u[j] = w[j - Len(t)]  BY <1>1, <2>1, <2>2
    <3> QED  BY <1>2, <3>1
  <2>4. ASSUME Before(u, S, c) PROVE Before(q, S, c)
    <3>1. PICK i, j \in 1 .. Len(u) : i < j /\ u[i] \in S /\ u[j] = c  BY <2>4 DEF Before
    <3>2. j \in 1 .. Len(t) /\ i \in 1 .. Len(t)  BY <1>1, <2>1, <2>2, <2>3, <3>1
    <3>3. i + 1 \in 1 .. Len(q) /\ j + 1 \in 1 .. Len(q) /\ q[i + 1] = u[i] /\ q[j + 1] = u[j]
      BY <1>1, <2>1, <2>2, <3>1, <3>2
    <3>4. i + 1 < j + 1  BY <3>1, <3>2
    <3> QED  BY <3>1, <3>3, <3>4 DEF Before
  <2>5. ASSUME Before(q, S, c), Head(q) \notin S PROVE Before(u, S, c)
    <3>1. PICK i, j \in 1 .. Len(q) : i < j /\ q[i] \in S /\ q[j] = c  BY <2>5 DEF Before
    <3>2. i /= 1  BY <2>1, <2>5, <3>1
    <3>3. i - 1 \in 1 .. Len(t) /\ j - 1 \in 1 .. Len(t) /\ i - 1 < j - 1  BY <1>1, <2>1, <3>1, <3>2
    <3>4. t[i - 1] = q[i] /\ t[j - 1] = q[j]  BY <1>1, <2>1, <3>1, <3>3
    <3>5. i - 1 \in 1 .. Len(u) /\ j - 1 \in 1 .. Len(u) /\ u[i - 1] = q[i] /\ u[j - 1] = q[j]
      BY <1>1, <2>1, <2>2, <3>3, <3>4
    <3> QED  BY <3>1, <3>3, <3>5 DEF Before
  <2> QED  BY <2>4, <2>5 DEF t, u
<1> QED  BY <1>4, <1>5

\* Nobody is before the head of the queue, which is before all others.
LEMMA HeadBefore ==
  ASSUME NEW T, NEW q \in Seq(T), q /= <<>>, NEW S, NEW c
  PROVE  /\ Head(q) = c /\ Once(q, c) => ~Before(q, S, c)
         /\ Head(q) \in S /\ Head(q) /= c /\ In(q, c) => Before(q, S, c)
<1>1. Len(q) \in Nat /\ Len(q) >= 1 /\ Head(q) = q[1] /\ 1 \in 1 .. Len(q)
  BY HeadTailProperties, EmptySeq, LenProperties
<1>2. ASSUME Head(q) = c, Once(q, c), Before(q, S, c) PROVE FALSE
  <2>1. PICK i, j \in 1 .. Len(q) : i < j /\ q[j] = c  BY <1>2 DEF Before
  <2>2. j = 1  BY <1>1, <1>2, <2>1 DEF Once
  <2> QED  BY <1>1, <2>1, <2>2
<1>3. ASSUME Head(q) \in S, Head(q) /= c, In(q, c) PROVE Before(q, S, c)
  <2>1. PICK j \in 1 .. Len(q) : q[j] = c  BY <1>3 DEF In
  <2>2. j /= 1  BY <1>1, <1>3, <2>1
  <2>3. 1 < j  BY <1>1, <2>1, <2>2
  <2> QED  BY <1>1, <1>3, <2>1, <2>3 DEF Before
<1> QED  BY <1>2, <1>3

\* Other named coroutines take their turn, or are woken.
OthersRun ==
  \/ ready' = ready
  \/ \E w \in Seq(Named) :
       /\ ~In(w, Co("proc")) /\ ~In(w, Co("feed"))
       /\ \/ ready' = ready \o w
          \/ /\ ready' = Tail(ready) \o w /\ ready /= <<>>
             /\ \A s \in Samples : Head(ready) /= Task(s)
             /\ Head(ready) /= Co("proc") /\ Head(ready) /= Co("feed")

\* Who runs goes on running when others are woken.
LEMMA RunsOn ==
  ASSUME ready \in Seq(Coroutines), NEW w \in Seq(Coroutines), ready' = ready \o w, NEW c, Runs(c)
  PROVE  ready' /= <<>> /\ Head(ready') = c
<1>1. Len(ready) \in Nat /\ Len(w) \in Nat /\ Len(ready) >= 1 /\ Head(ready) = ready[1] /\ ready[1] = c
  BY LenProperties, EmptySeq, HeadTailProperties DEF Runs
<1>2. ready' \in Seq(Coroutines) /\ Len(ready') = Len(ready) + Len(w) /\ ready'[1] = ready[1]
  BY <1>1, ConcatProperties
<1>3. ready' /= <<>>  BY <1>1, <1>2, EmptySeq
<1> QED  BY <1>1, <1>2, <1>3, HeadTailProperties

LEMMA OthersKeep ==
  ASSUME LockInv, OthersRun
  PROVE  /\ Runs(Co("proc")) => Runs(Co("proc"))'
         /\ \A S : \A c \in {Co("proc"), Co("feed")} : Before(ready', S, c) => Before(ready, S, c)
         /\ Before(ready, {Co("feed")}, Co("proc")) => Before(ready', {Co("feed")}, Co("proc"))
<1>1. ready \in Seq(Coroutines)  BY DEF LockInv
<1>2. CASE ready' = ready  BY <1>2 DEF Runs
<1>3. ASSUME NEW w \in Seq(Named), ~In(w, Co("proc")), ~In(w, Co("feed")),
             ready' = ready \o w \/ (ready' = Tail(ready) \o w /\ ready /= <<>> /\ Head(ready) /= Co("proc")
                                     /\ Head(ready) /= Co("feed"))
      PROVE  /\ Runs(Co("proc")) => Runs(Co("proc"))'
             /\ \A S : \A c \in {Co("proc"), Co("feed")} : Before(ready', S, c) => Before(ready, S, c)
             /\ Before(ready, {Co("feed")}, Co("proc")) => Before(ready', {Co("feed")}, Co("proc"))
  <2>1. w \in Seq(Coroutines)  BY NamedQueue
  <2>2. \A c \in {Co("proc"), Co("feed")} : ~In(w, c)  BY <1>3
  <2>3. ASSUME NEW S, NEW c \in {Co("proc"), Co("feed")}
        PROVE  /\ Before(ready', S, c) => Before(ready, S, c)
               /\ Before(ready, S, c) /\ Head(ready) \notin S => Before(ready', S, c)
    <3>1. ~In(w, c)  BY <2>2
    <3>2. /\ Before(ready \o w, S, c) <=> Before(ready, S, c)
          /\ ready /= <<>> /\ Before(Tail(ready) \o w, S, c) => Before(ready, S, c)
          /\ ready /= <<>> /\ Before(ready, S, c) /\ Head(ready) \notin S => Before(Tail(ready) \o w, S, c)
      BY <1>1, <2>1, <3>1, BeforeKept
    <3>3. CASE ready' = ready \o w
      <4>1. Before(ready', S, c) <=> Before(ready \o w, S, c)  BY <3>3
      <4> QED  BY <3>2, <4>1
    <3>4. CASE ready' = Tail(ready) \o w /\ ready /= <<>>
      <4>1. Before(ready', S, c) <=> Before(Tail(ready) \o w, S, c)  BY <3>4
      <4> QED  BY <3>2, <3>4, <4>1
    <3> QED  BY <1>3, <3>3, <3>4
  <2>4. Runs(Co("proc")) => Runs(Co("proc"))'
    <3> SUFFICES ASSUME Runs(Co("proc")) PROVE Runs(Co("proc"))'  OBVIOUS
    <3>1. ready' = ready \o w  BY <1>3 DEF Runs
    <3> QED  BY <1>1, <2>1, <3>1, RunsOn DEF Runs
  <2>5. Before(ready, {Co("feed")}, Co("proc")) => Before(ready', {Co("feed")}, Co("proc"))
    <3>1. CASE Head(ready) /= Co("feed")  BY <2>3, <3>1
    <3>2. CASE ready' = ready \o w
      <4>1. Before(ready', {Co("feed")}, Co("proc")) <=> Before(ready \o w, {Co("feed")}, Co("proc"))
        BY <3>2
      <4> QED  BY <1>1, <2>1, <2>2, <4>1, BeforeKept
    <3> QED  BY <1>3, <3>1, <3>2
  <2> QED  BY <2>3, <2>4, <2>5
<1> QED  BY <1>2, <1>3 DEF OthersRun

\* A step that neither the samples nor the processor nor the feed see.
Unseen ==
  /\ UNCHANGED <<pendingQueue, cancelQueue, hand, task, finished, failed, stalenessSamples, globalSteps,
                 doneBound, waitFor, serversPaused, queue, rpc>>
  /\ pc'["proc"] = pc["proc"] /\ pc'["feed"] = pc["feed"]
  /\ tpc \in {"firstLog", "collect"} => tpc' \in {"firstLog", "collect"}
  /\ paused' => paused
  /\ lockQueue' = <<>> /\ (holder' = Nobody \/ Runs(holder)')
  /\ OthersRun

LEMMA EarlyUnseen ==
  ASSUME LockInv, NothingPut, ComesToWait, Unseen
  PROVE  NothingPut' /\ ComesToWait'
<1>1. /\ UNCHANGED <<pendingQueue, cancelQueue, hand, task, finished, failed, stalenessSamples, globalSteps,
                     doneBound, waitFor, serversPaused, queue, rpc>>
      /\ pc'["proc"] = pc["proc"] /\ pc'["feed"] = pc["feed"] /\ (paused' => paused)
  BY DEF Unseen
<1>2. FedTo' = FedTo /\ TakenTo' = TakenTo /\ (FedEnough' <=> FedEnough)
  BY <1>1 DEF FedTo, TakenTo, FedEnough
<1>3. NothingPut'  BY <1>1, <1>2 DEF NothingPut, Unseen
<1>4. Live' = Live /\ ActiveTasks' = ActiveTasks /\ \A P : TasksAt(P)' = TasksAt(P)
  BY <1>1 DEF Live, ActiveTasks, TasksAt
<1>5. Submitting' <=> Submitting  BY <1>1, <1>2, <1>4 DEF Submitting
<1>6. /\ Runs(Co("proc")) => Runs(Co("proc"))'
      /\ \A S : \A c \in {Co("proc"), Co("feed")} : Before(ready', S, c) => Before(ready, S, c)
      /\ Before(ready, {Co("feed")}, Co("proc")) => Before(ready', {Co("feed")}, Co("proc"))
  BY OthersKeep DEF Unseen
<1>7. NoneStarted => NoneStarted'  BY <1>1, <1>4, <1>6 DEF NoneStarted
<1>8. ~Before(ready, TasksAt({"completed"}), Co("proc")) => ~Before(ready, TasksAt({"completed"}), Co("proc"))'
  BY <1>4, <1>6
<1>9. Before(ready, {Co("feed")}, Co("proc")) => Before(ready, {Co("feed")}, Co("proc"))'  BY <1>6
<1> QED
  BY <1>1, <1>2, <1>3, <1>4, <1>5, <1>6, <1>7, <1>8, <1>9 DEF ComesToWait

\* Nobody keeps the lock: who asks for it gets it, who gives it back wakes nobody.
LEMMA EarlyLock ==
  ASSUME LockInv, NothingPut, NEW n \in Names, Runs(Co(n))
  PROVE  /\ NextOwner = <<>> /\ lockQueue = <<>>
         /\ ready \in Seq(Coroutines) /\ ready /= <<>> /\ Head(ready) = Co(n)
         /\ Release => holder' = Nobody /\ lockQueue' = <<>>
         /\ Acquire(Co(n)) /\ ~Holding(n, pc[n]) =>
              ready' = ready /\ lockQueue' = <<>> /\ holder' = Co(n) /\ Runs(holder)'
<1>1. lockQueue = <<>> /\ (holder = Nobody \/ Runs(holder))  BY DEF NothingPut
<1>2. ready \in Seq(Coroutines) /\ ready /= <<>> /\ Head(ready) = Co(n)  BY DEF LockInv, Runs
<1>3. ASSUME Acquire(Co(n)), ~Holding(n, pc[n])
      PROVE  ready' = ready /\ lockQueue' = <<>> /\ holder' = Co(n) /\ Runs(holder)'
  <2>1. holder /= Co(n)  BY <1>3, RunsAwake
  <2>2. holder = Nobody  BY <1>1, <1>2, <2>1 DEF Runs
  <2>3. ready' = ready /\ holder' = Co(n) /\ lockQueue' = lockQueue  BY <1>3, <2>2 DEF Acquire
  <2> QED  BY <1>1, <1>2, <2>3 DEF Runs
<1> QED  BY <1>1, <1>2, <1>3 DEF NextOwner, Release

LEMMA EmptyNamed == <<>> \in Seq(Named) /\ \A c : ~In(<<>>, c)
<1>1. <<>> \in Seq(Named)  OBVIOUS
<1> QED  BY <1>1 DEF In

LEMMA TailEmpty ==
  ASSUME LockInv, ready /= <<>>
  PROVE  Tail(ready) \o <<>> = Tail(ready) /\ ready \o <<>> = ready
<1>1. ready \in Seq(Coroutines)  BY DEF LockInv
<1>2. Tail(ready) \in Seq(Coroutines)  BY <1>1, HeadTailProperties
<1> QED  BY <1>1, <1>2, ConcatEmptySeq

\* Main waits for the workers, the monitor looks at the lock and at the pause.
LEMMA EarlyOthers ==
  ASSUME AsyncInv, OverInv, Early, NothingPut, ComesToWait, UNCHANGED trainVars,
         \/ MainWoken \/ MainAcquires \/ MainStops \/ FinishSignalArrives
         \/ Monitor \/ MonitorTimer
  PROVE  Unseen
<1>0. LockInv /\ SyncType  BY DEF AsyncInv, SyncInv
<1>1. PICK p, f, m, k \in Names : p = "proc" /\ f = "feed" /\ m = "main" /\ k = "monitor"  BY DEF Names
<1>2. /\ Co("main") /= Co("proc") /\ Co("main") /= Co("feed")
      /\ Co("monitor") /= Co("proc") /\ Co("monitor") /= Co("feed")
      /\ \A s \in Samples : Task(s) /= Co("main") /\ Task(s) /= Co("monitor")
      /\ Co("monitor") /= Nobody /\ Co("main") /= Nobody
  BY <1>1, Distinct
<1>3. ~ProcOver /\ pc["proc"] \notin {"idleWait", "submitWait"}  BY DEF ComesToWait, ProcOver
<1>4. pc["main"] \notin {"sending", "sent", "stop", "done"}  BY <1>3 DEF OverInv
<1>5. ~MainAcquires /\ ~MainStops /\ ~FinishSignalArrives
  BY <1>4 DEF MainAcquires, MainStops, FinishSignalArrives
<1>6. tpc' = tpc  BY DEF trainVars
<1>7. WokenByNotify = <<>> /\ Notified = pc["proc"]  BY <1>3 DEF WokenByNotify, Notified
<1>8. lockQueue = <<>> /\ (holder = Nobody \/ Runs(holder))  BY DEF NothingPut
<1>9. CASE MainWoken
  <2>1. Runs(Co("main")) /\ pc["main"] = "woken" /\ Suspend(<<>>) /\ LockUnchanged
    BY <1>9 DEF MainWoken
  <2>2. /\ UNCHANGED <<pendingQueue, cancelQueue, hand, task, finished, failed, stalenessSamples, globalSteps,
                       doneBound, waitFor, serversPaused, queue, rpc, paused>>
        /\ pc'["proc"] = pc["proc"] /\ pc'["feed"] = pc["feed"]
    BY <1>0, <1>9 DEF MainWoken, flowVars, modeVars, restVars, mqVars, SyncType, Names, Goto
  <2>3. holder' = Nobody /\ lockQueue' = <<>>
    <3>1. ~Holding(m, pc[m])  BY <1>1, <2>1 DEF Holding, Entering, Calls
    <3>2. holder /= Co("main")  BY <1>0, <1>1, <2>1, <3>1, RunsAwake
    <3>3. holder = Nobody  BY <1>8, <2>1, <3>2 DEF Runs
    <3> QED  BY <1>8, <2>1, <3>3 DEF LockUnchanged
  <2>4. OthersRun
    <3>1. ready' = Tail(ready) \o <<>> /\ ready /= <<>> /\ Head(ready) = Co("main")
      BY <2>1 DEF Suspend, Runs
    <3> QED  BY <1>2, <3>1, EmptyNamed DEF OthersRun
  <2> QED  BY <1>6, <2>2, <2>3, <2>4 DEF Unseen
<1>10. CASE Monitor
  <2>1. Runs(Co("monitor"))
    BY <1>10 DEF Monitor, MonitorAcquires, MonitorChecks, MonitorDecides, MonitorUnpauses
  <2>2. /\ UNCHANGED <<pendingQueue, cancelQueue, hand, task, finished, failed, stalenessSamples, globalSteps,
                       doneBound, waitFor, serversPaused, queue, rpc>>
        /\ pc'["proc"] = pc["proc"] /\ pc'["feed"] = pc["feed"]
        /\ paused' => paused
    BY <1>0, <1>7, <1>10 DEF Monitor, MonitorAcquires, MonitorChecks, MonitorDecides, MonitorUnpauses,
       flowVars, modeVars, restVars, mqVars, SyncType, Names, Goto
  <2>3. /\ NextOwner = <<>> /\ ready /= <<>> /\ Head(ready) = Co("monitor")
        /\ Release => holder' = Nobody /\ lockQueue' = <<>>
        /\ Acquire(Co("monitor")) /\ ~Holding(k, pc[k]) =>
              ready' = ready /\ lockQueue' = <<>> /\ holder' = Co("monitor") /\ Runs(holder)'
    BY <1>0, <1>1, <2>1, EarlyLock
  <2>4. ready \o <<>> = ready  BY <1>0, <2>3, TailEmpty
  <2>5. CASE MonitorAcquires
    <3>1. Acquire(Co("monitor")) /\ pc["monitor"] = "check"  BY <2>5 DEF MonitorAcquires
    <3>2. ~Holding(k, pc[k])  BY <1>1, <3>1 DEF Holding, Entering, Calls
    <3> QED  BY <1>6, <2>2, <2>3, <3>1, <3>2 DEF Unseen, OthersRun
  <2>6. CASE MonitorChecks
    <3>1. Release /\ ready' = Tail(ready) \o <<>>  BY <2>3, <2>6 DEF MonitorChecks, Suspend
    <3>2. OthersRun  BY <1>2, <2>3, <3>1, EmptyNamed DEF OthersRun
    <3> QED  BY <1>6, <2>2, <2>3, <3>1, <3>2 DEF Unseen
  <2>7. CASE MonitorDecides
    <3>0. pc["monitor"] = "awake"  BY <2>7 DEF MonitorDecides
    <3>1. ~Holding(k, pc[k])  BY <1>1, <3>0 DEF Holding, Entering, Calls
    <3>2. CASE Acquire(Co("monitor"))  BY <1>6, <2>2, <2>3, <3>1, <3>2 DEF Unseen, OthersRun
    <3>3. CASE GoOn(<<>>) /\ LockUnchanged
      <4>1. ready' = ready  BY <2>4, <3>3 DEF GoOn
      <4> QED  BY <1>6, <1>8, <2>2, <3>3, <4>1 DEF Unseen, OthersRun, LockUnchanged, Runs
    <3> QED  BY <2>7, <3>2, <3>3 DEF MonitorDecides
  <2>8. CASE MonitorUnpauses
    <3>1. Release /\ ready' = ready \o (<<>> \o <<>>)  BY <1>7, <2>3, <2>8 DEF MonitorUnpauses, GoOn
    <3>2. ready' = ready  BY <2>4, <3>1
    <3> QED  BY <1>6, <2>2, <2>3, <3>1, <3>2 DEF Unseen, OthersRun
  <2> QED  BY <1>10, <2>5, <2>6, <2>7, <2>8 DEF Monitor
<1>11. CASE MonitorTimer
  <2>1. /\ UNCHANGED <<pendingQueue, cancelQueue, hand, task, finished, failed, stalenessSamples, globalSteps,
                       doneBound, waitFor, serversPaused, queue, rpc, paused>>
        /\ pc'["proc"] = pc["proc"] /\ pc'["feed"] = pc["feed"]
    BY <1>0, <1>11 DEF MonitorTimer, flowVars, modeVars, restVars, mqVars, SyncType, Names, Goto
  <2>2. ready' = Append(ready, Co("monitor")) /\ LockUnchanged  BY <1>11 DEF MonitorTimer, Wake
  <2>3. ready \in Seq(Coroutines) /\ Co("monitor") \in Coroutines /\ Co("monitor") \in Named
    BY <1>0, <1>1 DEF LockInv, Coroutines, Named
  <2>4. ready' = ready \o <<Co("monitor")>> /\ <<Co("monitor")>> \in Seq(Named)  BY <2>2, <2>3, AppendIsConcat
  <2>5. ~In(<<Co("monitor")>>, Co("proc")) /\ ~In(<<Co("monitor")>>, Co("feed"))  BY <1>2 DEF In
  <2>6. OthersRun  BY <2>4, <2>5 DEF OthersRun
  <2>7. Runs(holder) => ready' /= <<>> /\ Head(ready') = holder
    <3>1. <<Co("monitor")>> \in Seq(Coroutines)  BY <2>3
    <3> QED  BY <2>3, <2>4, <3>1, RunsOn
  <2>8. holder' = Nobody \/ Runs(holder)'  BY <1>8, <2>2, <2>7 DEF Runs, LockUnchanged
  <2> QED  BY <1>6, <1>8, <2>1, <2>2, <2>6, <2>8 DEF Unseen, LockUnchanged
<1> QED  BY <1>5, <1>9, <1>10, <1>11

\* The trainer waits for its first sample, and no call is under way.
LEMMA EarlyTrain ==
  ASSUME AsyncInv, NothingPut, Train \/ RunnerClears \/ UNCHANGED vars
  PROVE  Unseen
<1>1. tpc \in {"firstLog", "collect"} /\ queue = <<>> /\ lockQueue = <<>> /\ (holder = Nobody \/ Runs(holder))
  BY DEF NothingPut
<1>2. ~RunnerClears  BY <1>1 DEF RunnerClears, TrainOver
<1>3. /\ UNCHANGED <<rolloutVars, queue, rpc>>
      /\ tpc' \in {"firstLog", "collect"}
  <2>1. CASE Train
    <3>1. TrainNext /\ UNCHANGED rolloutVars  BY <2>1 DEF Train
    <3>2. CASE LogValidation
      <4>1. tpc = "firstLog" /\ tpc' = AfterLog(tpc)  BY <1>1, <3>2 DEF LogValidation, LogLabels
      <4>2. queue' = queue /\ rpc' = rpc  BY <3>2 DEF LogValidation, MQ!GetValidate, mqVars
      <4> QED  BY <3>1, <4>1, <4>2 DEF AfterLog
    <3>3. CASE CollectWaits  BY <1>1, <3>1, <3>3 DEF CollectWaits, MQ!GetSampleWaits, trainVars
    <3>4. ~Collect  BY <1>1 DEF Collect, MQ!GetSample
    <3> QED
      BY <1>1, <3>1, <3>2, <3>3, <3>4 DEF TrainNext, TrainStep, SyncPauses, SyncVersions, SyncTransfers,
         SaveCheckpoint, LastWait, DecideExtraSync
  <2>2. CASE UNCHANGED vars  BY <1>1, <2>2 DEF vars, mqVars, trainVars
  <2> QED  BY <1>2, <2>1, <2>2
<1> QED
  BY <1>1, <1>3 DEF Unseen, OthersRun, rolloutVars, loopVars, flowVars, modeVars, restVars, Runs

\* No call is under way.
LEMMA EarlyCalls ==
  ASSUME AsyncInv, \A c \in Calls : rpc[c] = "idle"
  PROVE  /\ ~PauseSteps /\ ~UpdateSteps /\ ~ResumeSteps
         /\ \A c \in Calls : ~CallArrives(c) /\ ~CallAcquires(c)
<1>1. \A c \in Calls : rpc[c] = "idle" /\ pc[c] = "none"
  BY DEF AsyncInv, SyncInv, CallsInOrder
<1>2. pc["pause"] = "none" /\ pc["update"] = "none" /\ pc["resume"] = "none"  BY <1>1 DEF Calls
<1>3. ~PauseSteps
  BY <1>2 DEF PauseSteps, PauseLocked, ServersCancel, PauseGathers, PauseGathered, ServersReset, PauseReturns
<1>4. ~UpdateSteps
  BY <1>2 DEF UpdateSteps, UpdateLocked, QueueSizeAnswers, UpdateResets, ValidationArrives, UpdateReturns
<1>5. ~ResumeSteps  BY <1>2 DEF ResumeSteps, ResumeLocked, ServersResume, ResumeReturns
<1> QED  BY <1>1, <1>3, <1>4, <1>5 DEF CallArrives, CallAcquires

\* The tasks: none runs before the processor comes to wait but to start.
LEMMA EarlyTask ==
  ASSUME AsyncInv, CountInv, MaxFailures = 0, NothingPut, ComesToWait, UNCHANGED trainVars, [Next]_vars,
         NEW t \in Samples, TaskStarts(t) \/ TaskCompletes(t) \/ TaskEnds(t) \/ Generation(t)
  PROVE  NothingPut' /\ ComesToWait'
<1>0. /\ LockInv /\ SyncInv /\ FlowInv /\ FlowType /\ PlacedOnce(t) /\ TasksRun /\ lockQueue = <<>>
      /\ ready \in Seq(Coroutines) /\ task \in [Samples -> TaskStates]
  BY DEF AsyncInv, FlowInv, FlowType, LockInv, NothingPut
<1>1. PICK p, f \in Names : p = "proc" /\ f = "feed"  BY DEF Names
<1>2. Task(t) /= Co("proc") /\ Task(t) /= Co("feed")  BY <1>1, Distinct
<1>3. task[t] \in {"none", "created", "sent", "generating", "completed"}  BY DEF NothingPut
<1>4. ~TaskEnds(t) /\ ~PutArrives(t)  BY <1>3 DEF TaskEnds, PutArrives
<1>5. task[t] /= "none"
  BY DEF TaskStarts, TaskCompletes, TaskEnds, Generation, ServerAccepts, GenerationEnds, PutArrives
<1>6. TakenTo \in Nat /\ TakenTo > 0
  <2>1. ~(t > TakenTo)  BY <1>0, <1>5 DEF PlacedOnce
  <2>2. TakenTo \in Nat /\ t \in Nat /\ t > 0  BY <1>0, NextTaken, SharedAssumption DEF Samples
  <2> QED  BY <2>1, <2>2
<1>7. pc["proc"] /= "none" /\ TakenTo > 0 /\ FedEnough  BY <1>6 DEF ComesToWait
<1>8. ASSUME Runs(Task(t)) PROVE pc["proc"] = "takes" /\ task[t] = "created" /\ holder = Nobody
  <2>1. ready /= <<>> /\ Head(ready) = Task(t) /\ ~Runs(Co("proc"))  BY <1>2, <1>8 DEF Runs
  <2>2. pc["proc"] \in {"getting", "takes"}  BY <1>7, <2>1 DEF ComesToWait
  <2>3. task[t] \in {"created", "completed"}  BY <1>3, <1>4, <1>8, <1>0, HeadLeaves, <2>1 DEF TasksRun, TaskAwake
  <2>4. CASE pc["proc"] = "getting"
    <3>1. NoneStarted /\ pc["feed"] /= "done"  BY <2>4 DEF ComesToWait, Submitting
    <3>2. pc["feed"] \in {"put", "putDone"} /\ ~Before(ready, TasksAt({"created"}), Co("feed"))
          /\ task[t] = "created"
      BY <2>3, <3>1 DEF NoneStarted
    <3>3. In(ready, Co("feed"))
      <4>1. ~Suspended(f, pc[f])  BY <1>1, <3>2 DEF Suspended, Calls
      <4>2. ~In(lockQueue, Co(f))  BY <1>0, EmptyNamed
      <4> QED  BY <1>0, <1>1, <4>1, <4>2 DEF LockInv
    <3>4. Head(ready) \in TasksAt({"created"})  BY <2>1, <3>2 DEF TasksAt
    <3> QED  BY <1>0, <1>2, <2>1, <3>2, <3>3, <3>4, HeadBefore
  <2>5. CASE pc["proc"] = "takes" /\ task[t] = "completed"
    <3>1. ~Before(ready, TasksAt({"completed"}), Co("proc"))  BY <2>5 DEF ComesToWait
    <3>2. In(ready, Co("proc"))
      <4>1. ~Suspended(p, pc[p])  BY <1>1, <2>5 DEF Suspended, Calls
      <4>2. ~In(lockQueue, Co(p))  BY <1>0, EmptyNamed
      <4> QED  BY <1>0, <1>1, <4>1, <4>2 DEF LockInv
    <3>3. Head(ready) \in TasksAt({"completed"})  BY <2>1, <2>5 DEF TasksAt
    <3> QED  BY <1>0, <1>2, <2>1, <3>1, <3>2, <3>3, HeadBefore
  <2>6. holder = Nobody
    <3>1. holder = Nobody \/ holder = Task(t)  BY <2>1 DEF NothingPut, Runs
    <3> QED  BY <1>0, <3>1, Distinct DEF LockInv
  <2> QED  BY <2>2, <2>3, <2>4, <2>5, <2>6
<1>9. ~TaskCompletes(t)  BY <1>8 DEF TaskCompletes
<1>10. /\ UNCHANGED <<pendingQueue, cancelQueue, hand, finished, failed, stalenessSamples, globalSteps,
                      doneBound, waitFor, serversPaused, queue, rpc, paused, pc, tpc, holder, lockQueue>>
       /\ task' = [task EXCEPT ![t] = task'[t]]
  <2>1. TaskStarts(t) \/ ServerAccepts(t) \/ GenerationEnds(t)  BY <1>4, <1>9 DEF Generation
  <2> QED
    BY <1>0, <2>1 DEF TaskStarts, ServerAccepts, GenerationEnds, trainVars, flowVars, modeVars, restVars, mqVars,
       loopVars, LockUnchanged
<1>11. FedTo' = FedTo /\ TakenTo' = TakenTo /\ (FedEnough' <=> FedEnough)
  BY <1>10 DEF FedTo, TakenTo, FedEnough
<1>12. CASE TaskStarts(t)
  <2>1. Runs(Task(t)) /\ task' = [task EXCEPT ![t] = "sent"] /\ ready' = Tail(ready) \o <<>>
    BY <1>12 DEF TaskStarts, Suspend
  <2>2. pc["proc"] = "takes" /\ task[t] = "created" /\ holder = Nobody /\ ready /= <<>>  BY <1>8, <2>1 DEF Runs
  <2>3. \A s \in Samples : task'[s] = IF s = t THEN "sent" ELSE task[s]  BY <1>0, <2>1
  <2>4. NothingPut'  BY <1>10, <1>11, <2>2, <2>3 DEF NothingPut
  <2>5. TasksAt({"completed"})' = TasksAt({"completed"})  BY <2>2, <2>3 DEF TasksAt
  <2>6. ~Before(ready', TasksAt({"completed"}), Co("proc"))
    <3>1. ~Before(ready, TasksAt({"completed"}), Co("proc"))  BY <2>2 DEF ComesToWait
    <3>2. <<>> \in Seq(Coroutines) /\ ~In(<<>>, Co("proc"))  BY EmptyNamed
    <3>3. ~Before(Tail(ready) \o <<>>, TasksAt({"completed"}), Co("proc"))
      BY <1>0, <2>2, <3>1, <3>2, BeforeKept
    <3> QED  BY <2>1, <3>3
  <2>7. ComesToWait'
    BY <1>7, <1>10, <1>11, <2>2, <2>5, <2>6 DEF ComesToWait, Submitting
  <2> QED  BY <2>4, <2>7
<1>13. CASE ServerAccepts(t) \/ GenerationEnds(t)
  <2>1. task[t] \in {"sent", "generating"}
        /\ task'[t] = IF task[t] = "sent" THEN "generating" ELSE "completed"
    <3>1. CASE ServerAccepts(t)
      <4>1. serversPaused = FALSE  BY DEF NothingPut
      <4> QED  BY <1>0, <3>1, <4>1 DEF ServerAccepts, Accepted
    <3>2. CASE GenerationEnds(t)
      <4>1. task[t] = "generating"  BY <1>3, <3>2 DEF GenerationEnds
      <4>2. task'[t] \in {"completed", "raised"}  BY <1>0, <3>2, <4>1 DEF GenerationEnds
      <4>3. task'[t] /= task[t]  BY <4>1, <4>2
      <4>4. task'[t] = "raised" => MaxFailures > 0  BY <1>0, <4>3, Answers
      <4> QED  BY <4>1, <4>2, <4>4
    <3> QED  BY <1>13, <3>1, <3>2
  <2>2. \A s \in Samples : task'[s] = IF s = t THEN task'[t] ELSE task[s]  BY <1>0, <1>10
  <2>3. ~Submitting  BY <2>1 DEF ComesToWait, NoneStarted
  <2>4. PICK w \in Seq(Coroutines) : /\ ready' = ready \o w /\ ~In(w, Co("proc")) /\ ~In(w, Co("feed"))
    <3>1. CASE ServerAccepts(t)
      <4>1. ready' = ready  BY <3>1 DEF ServerAccepts, loopVars
      <4>2. ready \o <<>> = ready /\ <<>> \in Seq(Coroutines)  BY <1>0, ConcatEmptySeq
      <4> QED  BY <4>1, <4>2, EmptyNamed
    <3>2. CASE GenerationEnds(t)
      <4>1. ready' = Append(ready, Task(t)) /\ Task(t) \in Coroutines  BY <3>2 DEF GenerationEnds, Wake, Coroutines
      <4>2. ready' = ready \o <<Task(t)>> /\ <<Task(t)>> \in Seq(Coroutines)  BY <1>0, <4>1, AppendIsConcat
      <4>3. ~In(<<Task(t)>>, Co("proc")) /\ ~In(<<Task(t)>>, Co("feed"))  BY <1>2 DEF In
      <4> QED  BY <4>2, <4>3
    <3> QED  BY <1>13, <3>1, <3>2
  <2>5. Runs(Co("proc")) => Runs(Co("proc"))'  BY <1>0, <2>4, RunsOn DEF Runs
  <2>6. Runs(holder) => Runs(holder)'
    <3>1. Runs(holder) => ready' /= <<>> /\ Head(ready') = holder  BY <1>0, <2>4, RunsOn
    <3> QED  BY <1>10, <3>1 DEF Runs
  <2>7. NothingPut'
    <3>1. lockQueue' = <<>> /\ (holder' = Nobody \/ Runs(holder)')  BY <1>10, <2>6 DEF NothingPut
    <3>2. \A s \in Samples : /\ task'[s] \in {"none", "created", "sent", "generating", "completed"}
                             /\ s <= TakenTo /\ s /= hand => task'[s] /= "none"
      BY <2>1, <2>2 DEF NothingPut
    <3> QED  BY <1>10, <1>11, <3>1, <3>2 DEF NothingPut
  <2>8. Live' = Live /\ ActiveTasks' = ActiveTasks  BY <1>10, <2>1, <2>2 DEF Live, ActiveTasks
  <2>9. ~Submitting'  BY <1>10, <1>11, <2>3, <2>8 DEF Submitting
  <2>10. ~Before(ready, TasksAt({"completed"}), Co("proc")) => ~Before(ready, TasksAt({"completed"}), Co("proc"))'
    <3> SUFFICES ASSUME Before(ready', TasksAt({"completed"})', Co("proc"))
                 PROVE  Before(ready, TasksAt({"completed"}), Co("proc"))  OBVIOUS
    <3> DEFINE S == TasksAt({"completed"})'
    <3>1. Before(ready \o w, S, Co("proc"))  BY <2>4
    <3>2. Before(ready, S, Co("proc"))  BY <1>0, <2>4, <3>1, BeforeKept
    <3>3. ~In(ready, Task(t))  BY <1>0, <2>1 DEF TasksRun, TaskAwake
    <3>4. S \subseteq TasksAt({"completed"}) \union {Task(t)}  BY <2>2 DEF TasksAt
    <3> HIDE DEF S
    <3> QED  BY <3>2, <3>3, <3>4 DEF Before, In
  <2>11. Before(ready, {Co("feed")}, Co("proc")) => Before(ready, {Co("feed")}, Co("proc"))'
    <3>1. Before(ready \o w, {Co("feed")}, Co("proc")) <=> Before(ready, {Co("feed")}, Co("proc"))
      BY <1>0, <2>4, BeforeKept
    <3> QED  BY <2>4, <3>1
  <2>12. ComesToWait'
    BY <1>10, <1>11, <2>5, <2>8, <2>9, <2>10, <2>11 DEF ComesToWait
  <2> QED  BY <2>7, <2>12
<1> QED  BY <1>4, <1>9, <1>12, <1>13 DEF Generation

\* Main starts the feed, and then the processor.
LEMMA EarlyStarts ==
  ASSUME AsyncInv, NothingPut, ComesToWait, UNCHANGED trainVars, MainStart
  PROVE  NothingPut' /\ ComesToWait'
<1>1. /\ Runs(Co("main")) /\ pc["main"] = "start" /\ LockUnchanged
      /\ pc' = [pc EXCEPT !["main"] = "waitFirst", !["feed"] = "put", !["proc"] = "top"]
      /\ ready' = Tail(ready) \o <<Co("feed"), Co("proc")>>
      /\ UNCHANGED <<flowVars, modeVars, restVars, rpc, mqVars>>
  BY DEF MainStart, Suspend
<1>2. LockInv /\ SyncType /\ pc["feed"] = "none" /\ pc["proc"] = "none"
  BY <1>1 DEF AsyncInv, SyncInv, Begun
<1>3. /\ UNCHANGED <<pendingQueue, cancelQueue, hand, task, finished, failed, stalenessSamples, globalSteps,
                     doneBound, waitFor, serversPaused, queue, rpc, paused, tpc, holder, lockQueue>>
      /\ pc'["proc"] = "top" /\ pc'["feed"] = "put"
  BY <1>1, <1>2 DEF flowVars, modeVars, restVars, mqVars, trainVars, LockUnchanged, SyncType, Names
<1>4. FedTo' = FedTo /\ TakenTo' = TakenTo  BY <1>2, <1>3 DEF FedTo, TakenTo
<1>5. TakenTo = 0 /\ ~paused  BY <1>2 DEF ComesToWait
<1>6. holder = Nobody
  <2>1. PICK m \in Names : m = "main"  BY DEF Names
  <2>2. ~Holding(m, pc[m])  BY <1>1, <2>1 DEF Holding, Entering, Calls
  <2>3. holder /= Co("main")  BY <1>1, <1>2, <2>1, <2>2, RunsAwake
  <2> QED  BY <1>1, <2>3 DEF NothingPut, Runs
<1>7. NothingPut'  BY <1>3, <1>4, <1>6 DEF NothingPut
<1>8. Before(ready', {Co("feed")}, Co("proc"))
  <2>1. ready \in Seq(Coroutines) /\ ready /= <<>>  BY <1>1, <1>2 DEF LockInv, Runs
  <2> DEFINE q == Tail(ready)
             w == <<Co("feed"), Co("proc")>>
  <2>2. q \in Seq(Coroutines) /\ Len(q) \in Nat  BY <2>1, HeadTailProperties, LenProperties
  <2>3. w \in Seq({Co("feed"), Co("proc")}) /\ Len(w) = 2 /\ w[1] = Co("feed") /\ w[2] = Co("proc")  OBVIOUS
  <2>4. Co("feed") \in Coroutines /\ Co("proc") \in Coroutines  BY DEF Coroutines, Names
  <2>5. w \in Seq(Coroutines)  BY <2>4
  <2>6. ready' = q \o w  BY <1>1
  <2> HIDE DEF q, w
  <2>7. /\ Len(ready') = Len(q) + 2
        /\ \A i \in 1 .. Len(ready') : ready'[i] = IF i <= Len(q) THEN q[i] ELSE w[i - Len(q)]
    <3>1. q \in Seq(Coroutines) /\ w \in Seq(Coroutines) /\ Len(w) = 2  BY <2>2, <2>3, <2>5
    <3>2. Len(q \o w) = Len(q) + Len(w)  BY <3>1, ConcatProperties
    <3>3. \A i \in 1 .. Len(q) + Len(w) : (q \o w)[i] = IF i <= Len(q) THEN q[i] ELSE w[i - Len(q)]
      BY <3>1, ConcatProperties
    <3> QED  BY <2>6, <3>1, <3>2, <3>3
  <2>8. ready'[Len(q) + 1] = Co("feed") /\ ready'[Len(q) + 2] = Co("proc")  BY <2>2, <2>3, <2>7
  <2>9. Len(q) + 1 \in 1 .. Len(ready') /\ Len(q) + 2 \in 1 .. Len(ready') /\ Len(q) + 1 < Len(q) + 2
    BY <2>2, <2>7
  <2> QED  BY <2>8, <2>9 DEF Before
<1>9. ComesToWait'  BY <1>3, <1>4, <1>5, <1>8 DEF ComesToWait, Submitting
<1> QED  BY <1>7, <1>9

\* The feed fills pending_queue, before the processor runs and while it waits for a
\* sample; and wakes it.
LEMMA EarlyFeeds ==
  ASSUME AsyncInv, NothingPut, ComesToWait, UNCHANGED trainVars, [Next]_vars, FeedPut \/ FeedBlocks
  PROVE  NothingPut' /\ ComesToWait'
<1>0. /\ LockInv /\ SyncType /\ FlowType /\ Runs(Co("feed")) /\ pc["feed"] \in {"put", "putDone"}
      /\ lockQueue = <<>> /\ LockUnchanged
  BY DEF FeedPut, FeedBlocks, AsyncInv, SyncInv, FlowInv, NothingPut
<1>1. PICK p, f, m \in Names : p = "proc" /\ f = "feed" /\ m = "main"  BY DEF Names
<1>2. /\ Co("proc") /= Co("feed") /\ Co("main") /= Co("proc") /\ ready \in Seq(Coroutines) /\ ready /= <<>>
      /\ Head(ready) = Co("feed")
  BY <1>0, <1>1, Distinct DEF Runs, LockInv
<1>3. /\ TakenTo \in Nat /\ TakenTo' = TakenTo /\ TakenTo = FedTo - Len(pendingQueue) /\ Len(pendingQueue) \in Nat
      /\ TakenTo' = FedTo' - Len(pendingQueue') /\ FedTo \in Nat /\ FedTo' \in Nat
  <2>1. ~ProcTakes  BY <1>2 DEF ProcTakes, Runs
  <2>2. TakenTo \in Nat /\ TakenTo' = TakenTo  BY <2>1, NextTaken DEF AsyncInv
  <2>3. Len(pendingQueue) \in Nat /\ FedTo \in Nat  BY <1>0, FeedUpTo, LenProperties DEF FlowType, AsyncInv
  <2>4. globalSteps' \in Samples  BY NextAsync DEF AsyncInv, FlowInv, FlowType
  <2>5. FedTo' \in Nat  BY <2>4, SharedAssumption DEF FedTo, Samples, End
  <2> QED  BY <2>2, <2>3, <2>5 DEF TakenTo
<1>4. FedTo' >= FedTo
  <2>1. CASE FeedPut
    <3>1. PICK x : pendingQueue' = Append(pendingQueue, x) /\ x \in Nat
      BY <2>1, SharedAssumption, <1>0 DEF FeedPut, FlowType, Samples, End
    <3>2. Len(pendingQueue') = Len(pendingQueue) + 1  BY <1>0, <3>1, AppendProperties DEF FlowType
    <3> QED  BY <1>3, <3>2
  <2>2. CASE FeedBlocks
    <3>1. pendingQueue' = pendingQueue  BY <2>2 DEF FeedBlocks, flowVars
    <3>2. Len(pendingQueue') = Len(pendingQueue)  BY <3>1
    <3> QED  BY <1>3, <3>2
  <2> QED  BY <2>1, <2>2
<1>5. holder = Nobody
  <2>1. ~Holding(f, pc[f])  BY <1>0, <1>1 DEF Holding, Entering, Calls
  <2>2. holder /= Co("feed")  BY <1>0, <1>1, <2>1, RunsAwake
  <2> QED  BY <1>2, <2>2 DEF NothingPut, Runs
<1>6. /\ UNCHANGED <<cancelQueue, hand, task, finished, failed, stalenessSamples, doneBound, waitFor,
                     serversPaused, queue, rpc, paused, tpc, holder, lockQueue>>
      /\ pc'["proc"] = IF FeedPut /\ pc["proc"] = "getting" THEN "takes" ELSE pc["proc"]
      /\ pc'["feed"] \in {"put", "putDone", "full", "fullDone", "done"}
  BY <1>0 DEF FeedPut, FeedBlocks, flowVars, modeVars, restVars, mqVars, trainVars, LockUnchanged, SyncType, Names,
     Goto
<1>7. NothingPut'  BY <1>3, <1>5, <1>6 DEF NothingPut
<1>8. FedEnough => FedEnough'
  <2>1. PendingSize \in Nat  BY RollouterAssumption
  <2> QED  BY <1>0, <1>3, <1>4, <2>1 DEF FedEnough
<1>9. pc["proc"] \in {"top", "getting", "takes"} /\ (pc["proc"] = "top" => TakenTo = 0) /\ ~paused
  <2>1. ~Runs(Co("proc"))  BY <1>2 DEF Runs
  <2> QED  BY <1>0, <1>3, <2>1 DEF ComesToWait
<1>10. CASE pc["proc"] = "getting"
  <2>1. FeedPut
    <3>1. Len(pendingQueue) = 0 /\ PendingSize >= 1  BY <1>10, RollouterAssumption DEF ComesToWait
    <3>2. ~FeedBlocks  BY <3>1, RollouterAssumption DEF FeedBlocks
    <3> QED  BY <3>2
  <2>2. TasksAt({"completed"})' = {}
    <3>1. NoneStarted  BY <1>10 DEF ComesToWait, Submitting
    <3> QED  BY <1>6, <3>1 DEF NoneStarted, TasksAt
  <2>3. ~Before(ready, TasksAt({"completed"}), Co("proc"))'  BY <2>2 DEF Before
  <2>4. pc'["proc"] = "takes"  BY <1>6, <1>10, <2>1
  <2>5. (TakenTo > 0 => FedEnough) /\ TakenTo >= MaxConcurrentSamples  BY <1>10 DEF ComesToWait
  <2> QED  BY <1>3, <1>6, <1>7, <1>8, <1>9, <2>3, <2>4, <2>5 DEF ComesToWait, Submitting
<1>11. CASE pc["proc"] = "takes"
  <2>1. TasksAt({"completed"})' = TasksAt({"completed"})  BY <1>6 DEF TasksAt
  <2>2. PICK w \in Seq(Coroutines) : ~In(w, Co("proc")) /\ (ready' = ready \o w \/ ready' = Tail(ready) \o w)
    <3> DEFINE v == IF pc["main"] = "waitFirst" THEN <<Co("main")>> ELSE <<>>
    <3>1. v \in Seq(Coroutines) /\ ~In(v, Co("proc"))
      <4>1. Co("main") \in Coroutines  BY <1>1 DEF Coroutines
      <4> QED  BY <1>2, <4>1 DEF In
    <3>2. <<>> \o v = v /\ <<>> \in Seq(Coroutines) /\ ~In(<<>>, Co("proc"))  BY <3>1, EmptyNamed, ConcatEmptySeq
    <3>3. CASE FeedPut
      <4>1. ready' = ready \o <<>> \/ ready' = Tail(ready) \o (<<>> \o v)
        BY <1>11, <3>3 DEF FeedPut, GoOn, Suspend
      <4> HIDE DEF v
      <4> QED  BY <3>1, <3>2, <4>1
    <3>4. CASE FeedBlocks
      <4>1. ready' = Tail(ready) \o <<>>  BY <3>4 DEF FeedBlocks, Suspend
      <4> QED  BY <3>2, <4>1
    <3> QED  BY <3>3, <3>4
  <2>3. ~Before(ready, TasksAt({"completed"}), Co("proc"))'
    <3>1. ~Before(ready, TasksAt({"completed"}), Co("proc"))  BY <1>11 DEF ComesToWait
    <3>2. ~Before(ready \o w, TasksAt({"completed"}), Co("proc"))
          /\ ~Before(Tail(ready) \o w, TasksAt({"completed"}), Co("proc"))
      BY <1>2, <2>2, <3>1, BeforeKept
    <3>3. ~Before(ready', TasksAt({"completed"}), Co("proc"))
      <4>1. CASE ready' = ready \o w  BY <3>2, <4>1
      <4>2. CASE ready' = Tail(ready) \o w  BY <3>2, <4>2
      <4> QED  BY <2>2, <4>1, <4>2
    <3> QED  BY <2>1, <3>3
  <2>4. pc'["proc"] = "takes"  BY <1>6, <1>11
  <2>5. (TakenTo > 0 => FedEnough) /\ TakenTo >= MaxConcurrentSamples  BY <1>11 DEF ComesToWait
  <2> QED  BY <1>3, <1>6, <1>7, <1>8, <1>9, <2>3, <2>4, <2>5 DEF ComesToWait, Submitting
<1>12. CASE pc["proc"] = "top"
  <2>1. TakenTo = 0 /\ pc'["proc"] = "top"  BY <1>6, <1>9, <1>12
  <2>2. FedEnough' \/ Before(ready, {Co("feed")}, Co("proc"))'
    <3>1. CASE FeedBlocks
      <4>1. Len(pendingQueue) >= PendingSize  BY <3>1 DEF FeedBlocks
      <4>2. FedTo >= PendingSize  BY <1>3, <2>1, <4>1, RollouterAssumption
      <4> QED  BY <1>8, <4>2 DEF FedEnough
    <3>2. CASE FeedPut /\ pc["feed"] = "putDone"
      <4>1. pc'["feed"] = "done"  BY <1>0, <3>2 DEF FeedPut, SyncType, Names
      <4> QED  BY <4>1 DEF FedEnough
    <3>3. CASE FeedPut /\ pc["feed"] = "put"
      <4>1. ready' = ready \o <<>>  BY <1>12, <3>3 DEF FeedPut, GoOn
      <4>2. ready' = ready  BY <1>0, <1>2, <4>1, TailEmpty
      <4>3. In(ready, Co("proc"))
        <5>1. ~Suspended(p, pc[p])  BY <1>1, <1>12 DEF Suspended, Calls
        <5>2. ~In(lockQueue, Co(p))  BY <1>0, EmptyNamed
        <5> QED  BY <1>0, <1>1, <5>1, <5>2 DEF LockInv
      <4>4. Head(ready) \in {Co("feed")} /\ Head(ready) /= Co("proc")  BY <1>2
      <4>5. Before(ready, {Co("feed")}, Co("proc"))  BY <1>2, <4>3, <4>4, HeadBefore
      <4> QED  BY <4>2, <4>5
    <3> QED  BY <1>0, <3>1, <3>2, <3>3
  <2> QED  BY <1>3, <1>6, <1>7, <1>9, <2>1, <2>2 DEF ComesToWait, Submitting
<1> QED  BY <1>9, <1>10, <1>11, <1>12

\* All that is taken and not in hand is in generation.
LEMMA EarlyLive ==
  ASSUME AsyncInv, NothingPut, [Next]_vars, hand = NoSample
  PROVE  /\ TakenTo \in Nat /\ MaxConcurrentSamples \in Nat \ {0}
         /\ TakenTo > 0 => Live /= {}
         /\ TakenTo <= TotalSteps => ActiveTasks >= TakenTo
         /\ ActiveTasks = Cardinality(Live)
<1>1. TakenTo \in Nat /\ TotalSteps \in Nat \ {0}  BY NextTaken, SharedAssumption DEF AsyncInv
<1>2. MaxConcurrentSamples \in Nat \ {0}
  <2>1. MaxRequiredSamples \in Nat \ {0} /\ ServerSlots \in Nat \ {0}  BY Finite, RollouterAssumption
  <2> QED  BY <2>1 DEF MaxConcurrentSamples
<1>3. \A s \in Samples : s <= TakenTo => s \in Live
  <2>1. \A s \in Samples : s /= hand  BY Sizes
  <2> QED  BY <2>1 DEF NothingPut, Live
<1>4. TakenTo > 0 => Live /= {}
  <2>1. 1 \in Samples  BY <1>1 DEF Samples
  <2> QED  BY <1>1, <1>3, <2>1
<1>5. ActiveTasks = Cardinality(Live)
  <2>1. finished = 0 /\ failed = {} /\ Cardinality({}) = 0  BY FS_EmptySet DEF NothingPut
  <2>2. Cardinality(Live) \in Nat  BY Finite DEF Live
  <2> QED  BY <2>1, <2>2 DEF ActiveTasks
<1>6. ASSUME TakenTo <= TotalSteps PROVE ActiveTasks >= TakenTo
  <2>1. 1 .. TakenTo \subseteq Live /\ Live \in SUBSET Samples  BY <1>1, <1>3, <1>6 DEF Samples, Live
  <2>2. 1 .. TakenTo \in SUBSET Live  BY <2>1
  <2>3. Cardinality(1 .. TakenTo) <= Cardinality(Live)  BY <2>1, <2>2, Finite
  <2>4. Cardinality(1 .. TakenTo) = TakenTo
    <3>1. 1 \in Int /\ TakenTo \in Int /\ TakenTo - 1 + 1 = TakenTo  BY <1>1
    <3> QED  BY <1>1, <3>1, FS_Interval, SMTT(60)
  <2> QED  BY <1>5, <2>3, <2>4
<1> QED  BY <1>1, <1>2, <1>4, <1>5, <1>6

\* Which of its steps the processor takes then.
LEMMA EarlySteps ==
  ASSUME AsyncInv, Early, NothingPut, ComesToWait, Processor
  PROVE  \/ ProcPauses \/ ProcSetsPaused \/ ProcTakes \/ ProcAwaitsSample \/ ProcLoopEnds \/ ProcLoopAcquires
         \/ ProcWaits \/ ProcSubmits
<1>1. cancelQueue = <<>> /\ finished = 0 /\ failed = {}  BY DEF NothingPut
<1>2. ~ProcTakesCancelled  BY <1>1 DEF ProcTakesCancelled
<1>3. ~ProcSkipsWait
  <2> SUFFICES ASSUME ProcSkipsWait PROVE FALSE  OBVIOUS
  <2>1. pc["proc"] = "check" /\ ActiveTasks = 0  BY DEF ProcSkipsWait
  <2>2. Live /= {} /\ Live \in SUBSET Samples  BY <2>1 DEF ComesToWait, Live
  <2>3. IsFiniteSet(Live) /\ Cardinality(Live) \in Nat  BY <2>2, Finite
  <2>4. Cardinality(Live) /= 0  BY <2>2, <2>3, FS_EmptySet
  <2>5. Cardinality({}) = 0  BY FS_EmptySet
  <2> QED  BY <1>1, <2>1, <2>3, <2>4, <2>5 DEF ActiveTasks
<1>4. ~ProcReaps  BY DEF ProcReaps, Early
<1>5. ~ProcIdles /\ ~ProcNotified  BY DEF ProcIdles, ProcNotified, ComesToWait
<1>6. ~ProcHoldsBack  BY DEF ProcHoldsBack, ComesToWait
<1> QED  BY <1>2, <1>3, <1>4, <1>5, <1>6 DEF Processor

LEMMA EarlyTakes ==
  ASSUME AsyncInv, CountInv, FinalInv, Standing, NothingPut, ComesToWait, UNCHANGED trainVars, [Next]_vars, ProcTakes
  PROVE  NothingPut' /\ ComesToWait'
<1>0. LockInv /\ SyncType /\ FlowType /\ TasksRun  BY DEF AsyncInv, SyncInv, FlowInv
<1>1. /\ Runs(Co("proc")) /\ pc["proc"] \in {"top", "takes"} /\ pendingQueue /= <<>>
      /\ hand' = IF Head(pendingQueue) = End THEN NoSample ELSE Head(pendingQueue)
      /\ waitFor' = IF Head(pendingQueue) = End THEN "final" ELSE "slots"
      /\ stalenessSamples' = stalenessSamples + 1
      /\ pc' = [pc EXCEPT !["proc"] = "loop", !["feed"] = FeedUnblocked(@)]
      /\ ready' = ready \o (IF pc["feed"] \in {"full", "fullDone"} THEN <<Co("feed")>> ELSE <<>>)
      /\ UNCHANGED <<cancelQueue, task, finished, failed, doneBound, serversPaused, rpc, queue, paused,
                     holder, lockQueue, tpc, globalSteps>>
  BY DEF ProcTakes, GoOn, modeVars, mqVars, LockUnchanged, trainVars
<1>2. pc'["proc"] = "loop" /\ pc'["feed"] = FeedUnblocked(pc["feed"])  BY <1>0, <1>1 DEF SyncType, Names
<1>3. PICK p, f \in Names : p = "proc" /\ f = "feed"  BY DEF Names
<1>4. ready \in Seq(Coroutines) /\ ready /= <<>> /\ Head(ready) = Co("proc") /\ Once(ready, Co("proc"))
      /\ Co("feed") /= Co("proc")
  BY <1>0, <1>1, <1>3, Distinct DEF LockInv, Runs
<1>5. hand = NoSample /\ pc["proc"] /= "crashed" /\ waitFor /= "final"
  BY <1>0, <1>1 DEF FlowType, InHand, FinalInv
<1>6. /\ TakenTo \in Nat /\ TakenTo <= TotalSteps /\ TakenTo' = TakenTo + 1 /\ Head(pendingQueue) = TakenTo + 1
      /\ TotalSteps \in Nat
  <2>1. /\ TakenTo \in Nat /\ TakenTo <= End
        /\ TakenTo' = TakenTo \/ (ProcTakes /\ TakenTo' = TakenTo + 1 /\ Head(pendingQueue) = TakenTo + 1)
    BY NextTaken DEF AsyncInv
  <2>2. TakenTo /= End  BY <1>5 DEF FinalInv
  <2>3. TotalSteps \in Nat /\ End = TotalSteps + 1  BY SharedAssumption DEF End
  <2>4. TakenTo' /= TakenTo
    <3>1. FedTo' = FedTo  BY <1>1, <1>2, <1>0 DEF FedTo, FeedUnblocked
    <3>2. pendingQueue' = Tail(pendingQueue)  BY DEF ProcTakes
    <3>3. Len(pendingQueue') = Len(pendingQueue) - 1 /\ Len(pendingQueue) \in Nat
      BY <1>0, <1>1, <3>2, HeadTailProperties, LenProperties DEF FlowType
    <3>4. FedTo \in Nat  BY FeedUpTo DEF AsyncInv
    <3> QED  BY <3>1, <3>3, <3>4 DEF TakenTo
  <2> QED  BY <2>1, <2>2, <2>3, <2>4
<1>7. FedTo' = FedTo  BY <1>0, <1>1, <1>2 DEF FedTo, FeedUnblocked
<1>8. FedEnough
  <2>1. ~Before(ready, {Co("feed")}, Co("proc"))  BY <1>4, HeadBefore
  <2>2. CASE TakenTo > 0  BY <2>2 DEF ComesToWait
  <2>3. CASE TakenTo = 0
    <3>1. MaxConcurrentSamples \in Nat \ {0}  BY <1>5, EarlyLive
    <3>2. pc["proc"] = "top"
      <4>1. pc["proc"] = "takes" => TakenTo >= MaxConcurrentSamples  BY DEF ComesToWait
      <4> QED  BY <1>1, <2>3, <3>1, <4>1
    <3> QED  BY <2>1, <2>3, <3>2 DEF ComesToWait
  <2> QED  BY <1>6, <2>2, <2>3
<1>9. FedEnough'  BY <1>2, <1>7, <1>8 DEF FedEnough, FeedUnblocked
<1>10. /\ TakenTo > 0 => Live /= {}
       /\ ActiveTasks >= TakenTo /\ MaxConcurrentSamples \in Nat \ {0} /\ ActiveTasks = Cardinality(Live)
  BY <1>5, <1>6, EarlyLive
<1>11. Live' = Live /\ ActiveTasks' = ActiveTasks /\ Cardinality(Live) \in Nat
  BY <1>1, Finite DEF Live, ActiveTasks
<1>12. PICK w \in Seq(Named) : /\ ready' = ready \o w
                               /\ w = IF pc["feed"] \in {"full", "fullDone"} THEN <<Co("feed")>> ELSE <<>>
  <2>1. Co("feed") \in Named  BY <1>3 DEF Named
  <2>2. <<Co("feed")>> \in Seq(Named) /\ <<>> \in Seq(Named)  BY <2>1, EmptyNamed
  <2> QED  BY <1>1, <2>2
<1>13. w \in Seq(Coroutines)  BY NamedQueue
<1>14. Runs(Co("proc"))'  BY <1>1, <1>4, <1>12, <1>13, RunsOn DEF Runs
<1>15. NothingPut'
  <2>1. holder' = Nobody \/ Runs(holder)'
    <3>1. Runs(holder) => ready' /= <<>> /\ Head(ready') = holder  BY <1>4, <1>12, <1>13, RunsOn
    <3> QED  BY <1>1, <3>1 DEF NothingPut, Runs
  <2>2. \A s \in Samples : s <= TakenTo' /\ s /= hand' => task[s] /= "none"
    <3> SUFFICES ASSUME NEW s \in Samples, s <= TakenTo', s /= hand' PROVE task[s] /= "none"  OBVIOUS
    <3>1. s \in Nat /\ s <= TotalSteps  BY <1>6 DEF Samples
    <3>2. s /= TakenTo + 1
      <4>1. CASE Head(pendingQueue) = End  BY <1>6, <3>1, <4>1 DEF End
      <4>2. CASE Head(pendingQueue) /= End  BY <1>1, <1>6, <4>2
      <4> QED  BY <4>1, <4>2
    <3>3. s <= TakenTo /\ s /= hand  BY <1>5, <1>6, <3>1, <3>2, Sizes
    <3> QED  BY <3>3 DEF NothingPut
  <2>3. stalenessSamples' <= TakenTo'
    <3>1. stalenessSamples <= TakenTo  BY DEF NothingPut
    <3>2. stalenessSamples \in Nat  BY DEF CountInv
    <3> QED  BY <1>1, <1>6, <3>1, <3>2
  <2> QED  BY <1>1, <2>1, <2>2, <2>3 DEF NothingPut
<1>16. waitFor' = "slots" \/ Live' /= {}
  <2>1. CASE Head(pendingQueue) = End
    <3>1. TakenTo > 0  BY <1>6, <2>1, SharedAssumption DEF End
    <3> QED  BY <1>10, <1>11, <3>1
  <2> QED  BY <1>1, <2>1
<1>17. Submitting' => NoneStarted'
  <2> SUFFICES ASSUME Submitting' PROVE NoneStarted'  OBVIOUS
  <2>1. ActiveTasks < MaxConcurrentSamples  BY <1>2, <1>11 DEF Submitting
  <2>2. pc["proc"] = "top"
    <3>1. CASE pc["proc"] = "takes"
      <4>1. TakenTo >= MaxConcurrentSamples  BY <3>1 DEF ComesToWait
      <4> QED  BY <1>6, <1>10, <1>11, <2>1, <4>1
    <3> QED  BY <1>1, <3>1
  <2>3. CASE TakenTo > 0
    <3>1. NoneStarted  BY <2>2, <2>3 DEF ComesToWait, Submitting
    <3>2. w = <<>> /\ pc'["feed"] = pc["feed"]  BY <1>2, <1>12, <3>1 DEF NoneStarted, FeedUnblocked
    <3>3. ready' = ready  BY <1>0, <1>4, <1>12, <3>2, TailEmpty
    <3> QED  BY <1>1, <3>1, <3>2, <3>3 DEF NoneStarted, TasksAt
  <2>4. CASE TakenTo = 0
    <3>1. \A s \in Samples : task[s] = "none"
      <4>1. \A s \in Samples : PlacedOnce(s) /\ s > 0  BY <1>6 DEF AsyncInv, FlowInv, Samples
      <4> QED  BY <2>4, <4>1 DEF PlacedOnce
    <3>2. TasksAt({"created"})' = {}  BY <1>1, <3>1 DEF TasksAt
    <3>3. ~Before(ready', TasksAt({"created"})', Co("feed"))  BY <3>2 DEF Before
    <3>4. pc'["feed"] \in {"put", "putDone", "done"}
      <4>1. pc["feed"] /= "none"  BY <1>1, <1>6 DEF ComesToWait
      <4>2. pc["feed"] \in {"none", "put", "putDone", "full", "fullDone", "done"}
        BY <1>3 DEF Standing, Labels
      <4> QED  BY <1>2, <4>1, <4>2 DEF FeedUnblocked
    <3> QED  BY <1>1, <3>1, <3>3, <3>4 DEF NoneStarted
  <2> QED  BY <1>6, <2>3, <2>4
<1>18. ~paused'  BY <1>1 DEF ComesToWait
<1>19. TakenTo' > 0  BY <1>6
<1>20. pc'["feed"] /= "none"
  <2>1. pc["feed"] /= "none"  BY <1>1 DEF ComesToWait
  <2> QED  BY <1>2, <2>1 DEF FeedUnblocked
<1>21. ComesToWait'  BY <1>2, <1>9, <1>14, <1>16, <1>17, <1>18, <1>19, <1>20 DEF ComesToWait
<1> QED  BY <1>15, <1>21

\* The processor goes on without taking or submitting a sample.
ProcGoesOn ==
  /\ UNCHANGED <<pendingQueue, cancelQueue, hand, task, finished, failed, stalenessSamples, globalSteps,
                 doneBound, serversPaused, queue, rpc, tpc, ready>>
  /\ pc'["feed"] = pc["feed"]
  /\ lockQueue' = <<>> /\ (holder' = Nobody \/ Runs(holder)')

LEMMA GoesOnUnseen ==
  ASSUME NothingPut, ComesToWait, ProcGoesOn
  PROVE  /\ NothingPut' /\ TakenTo' = TakenTo /\ (FedEnough' <=> FedEnough)
         /\ (NoneStarted' <=> NoneStarted) /\ Live' = Live /\ ActiveTasks' = ActiveTasks
         /\ Runs(Co("proc"))' <=> Runs(Co("proc"))
<1>1. FedTo' = FedTo /\ TakenTo' = TakenTo  BY DEF ProcGoesOn, FedTo, TakenTo
<1>2. FedEnough' <=> FedEnough  BY <1>1 DEF ProcGoesOn, FedEnough
<1>3. NoneStarted' <=> NoneStarted  BY DEF ProcGoesOn, NoneStarted, TasksAt, Before
<1>4. NothingPut'  BY <1>1 DEF NothingPut, ProcGoesOn
<1>5. Live' = Live /\ ActiveTasks' = ActiveTasks  BY DEF ProcGoesOn, Live, ActiveTasks
<1> QED  BY <1>1, <1>2, <1>3, <1>4, <1>5 DEF ProcGoesOn, Runs

\* It pauses, and comes to wait for the tasks it has submitted.
LEMMA EarlyGoesOn ==
  ASSUME AsyncInv, CountInv, NothingPut, ComesToWait, UNCHANGED trainVars, [Next]_vars,
         ProcPauses \/ ProcSetsPaused \/ ProcLoopEnds \/ ProcLoopAcquires
  PROVE  NothingPut' /\ ComesToWait'
<1>0. LockInv /\ SyncType /\ FlowType  BY DEF AsyncInv, SyncInv, FlowInv
<1>1. PICK p \in Names : p = "proc"  BY DEF Names
<1>2. Runs(Co("proc"))
  BY DEF ProcPauses, ProcSetsPaused, ProcLoopEnds, ProcLoopAcquires
<1>3. /\ NextOwner = <<>> /\ lockQueue = <<>> /\ ready /= <<>>
      /\ Release => holder' = Nobody /\ lockQueue' = <<>>
      /\ Acquire(Co("proc")) /\ ~Holding(p, pc[p]) =>
           ready' = ready /\ lockQueue' = <<>> /\ holder' = Co("proc") /\ Runs(holder)'
  BY <1>0, <1>1, <1>2, EarlyLock
<1>4. ready \o <<>> = ready  BY <1>0, <1>3, TailEmpty
<1>5. MaxConcurrentSamples \in Nat \ {0}
  <2>1. MaxRequiredSamples \in Nat \ {0} /\ ServerSlots \in Nat \ {0}  BY Finite, RollouterAssumption
  <2> QED  BY <2>1 DEF MaxConcurrentSamples
<1>6. /\ ActiveTasks = Cardinality(Live) /\ ActiveTasks \in Nat
      /\ Live = {} <=> ActiveTasks = 0
  <2>1. finished = 0 /\ failed = {} /\ Cardinality({}) = 0  BY FS_EmptySet DEF NothingPut
  <2>2. IsFiniteSet(Live) /\ Cardinality(Live) \in Nat  BY Finite DEF Live
  <2>3. ActiveTasks = Cardinality(Live)  BY <2>1, <2>2 DEF ActiveTasks
  <2> QED  BY <2>2, <2>3, FS_EmptySet
<1>7. UNCHANGED <<pendingQueue, cancelQueue, hand, task, finished, failed, stalenessSamples, globalSteps,
                  doneBound, serversPaused, queue, rpc, tpc>>
  BY DEF ProcPauses, ProcSetsPaused, ProcLoopEnds, ProcLoopAcquires, trainVars, flowVars, modeVars, restVars, mqVars
<1>8. CASE ProcPauses
  <2>1. /\ Acquire(Co("proc")) /\ pc["proc"] = "top" /\ (paused \/ ShouldPause)
        /\ pc'["proc"] = "setPaused" /\ pc'["feed"] = pc["feed"] /\ paused' = paused
    BY <1>0, <1>8 DEF ProcPauses, Goto, SyncType, Names, modeVars
  <2>2. ~Holding(p, pc[p])  BY <1>1, <2>1 DEF Holding, Entering, Calls
  <2>3. ProcGoesOn  BY <1>3, <1>7, <2>1, <2>2 DEF ProcGoesOn
  <2>4. ~paused  BY <2>1 DEF ComesToWait
  <2>5. TakenTo > 0 /\ Live /= {}
    <3>1. hand = NoSample  BY <1>0, <2>1 DEF FlowType, InHand
    <3>2. TakenTo \in Nat /\ (TakenTo > 0 => Live /= {})  BY <3>1, EarlyLive
    <3>3. MaxRequiredSamples \in Nat \ {0} /\ Len(queue) = 0  BY Finite, EmptySeq DEF NothingPut
    <3>4. stalenessSamples >= MaxRequiredSamples  BY <2>1, <2>4, <3>3 DEF ShouldPause
    <3>5. stalenessSamples \in Nat /\ stalenessSamples <= TakenTo  BY DEF CountInv, NothingPut
    <3> QED  BY <3>2, <3>3, <3>4, <3>5
  <2>6. Runs(Co("proc"))'  BY <1>2, <2>3, GoesOnUnseen
  <2>7. TakenTo > 0 => FedEnough  BY DEF ComesToWait
  <2>8. pc["feed"] /= "none"  BY <2>1 DEF ComesToWait
  <2> QED  BY <2>1, <2>3, <2>4, <2>5, <2>6, <2>7, <2>8, GoesOnUnseen DEF ComesToWait, Submitting
<1>9. CASE ProcSetsPaused
  <2>1. /\ Release /\ pc["proc"] = "setPaused" /\ ready' = ready /\ waitFor' = "drain"
        /\ pc'["proc"] = "loop" /\ pc'["feed"] = pc["feed"]
    BY <1>0, <1>3, <1>4, <1>9 DEF ProcSetsPaused, GoOn, Goto, SyncType, Names
  <2>2. ProcGoesOn  BY <1>3, <1>7, <2>1 DEF ProcGoesOn
  <2>3. TakenTo > 0 /\ Live /= {} /\ FedEnough /\ pc["feed"] /= "none"  BY <2>1 DEF ComesToWait
  <2>4. Runs(Co("proc"))'  BY <1>2, <2>2, GoesOnUnseen
  <2> QED  BY <2>1, <2>2, <2>3, <2>4, GoesOnUnseen DEF ComesToWait, Submitting
<1>10. CASE ProcLoopEnds
  <2>1. pc["proc"] = "loop" /\ LoopOver  BY <1>10 DEF ProcLoopEnds
  <2>2. waitFor = "slots" /\ ActiveTasks < MaxConcurrentSamples
    <3>1. Live /= {} \/ waitFor = "slots"  BY <2>1 DEF ComesToWait
    <3> QED  BY <1>6, <2>1, <3>1 DEF LoopOver
  <2>3. /\ Acquire(Co("proc")) /\ pc'["proc"] = "submit" /\ pc'["feed"] = pc["feed"] /\ paused' = paused
    BY <1>0, <1>10, <2>2 DEF ProcLoopEnds, Goto, SyncType, Names, modeVars
  <2>4. ~Holding(p, pc[p])  BY <1>1, <2>1 DEF Holding, Entering, Calls
  <2>5. ProcGoesOn  BY <1>3, <1>7, <2>3, <2>4 DEF ProcGoesOn
  <2>6. TakenTo > 0 /\ FedEnough /\ pc["feed"] /= "none" /\ ~paused  BY <2>1, <2>2 DEF ComesToWait
  <2>7. NoneStarted  BY <2>1, <2>2 DEF ComesToWait, Submitting
  <2>8. Runs(Co("proc"))'  BY <1>2, <2>5, GoesOnUnseen
  <2> QED  BY <2>3, <2>5, <2>6, <2>7, <2>8, GoesOnUnseen DEF ComesToWait
<1>11. CASE ProcLoopAcquires
  <2>1. /\ Acquire(Co("proc")) /\ pc["proc"] = "loop" /\ ~LoopOver /\ pc'["proc"] = "check"
        /\ pc'["feed"] = pc["feed"] /\ paused' = paused /\ waitFor' = waitFor
    BY <1>0, <1>11 DEF ProcLoopAcquires, Goto, SyncType, Names, modeVars, restVars
  <2>2. ~Holding(p, pc[p])  BY <1>1, <2>1 DEF Holding, Entering, Calls
  <2>3. ProcGoesOn  BY <1>3, <1>7, <2>1, <2>2 DEF ProcGoesOn
  <2>4. Live /= {}
    <3>1. CASE waitFor = "slots"
      <4>1. ~(ActiveTasks < MaxConcurrentSamples)  BY <2>1, <3>1 DEF LoopOver
      <4> QED  BY <1>5, <1>6, <4>1
    <3>2. CASE waitFor /= "slots"  BY <2>1, <3>2 DEF ComesToWait
    <3> QED  BY <3>1, <3>2
  <2>5. TakenTo > 0 /\ FedEnough /\ pc["feed"] /= "none" /\ (paused => waitFor = "drain")
    BY <2>1 DEF ComesToWait
  <2>6. Runs(Co("proc"))'  BY <1>2, <2>3, GoesOnUnseen
  <2> QED  BY <2>1, <2>3, <2>4, <2>5, <2>6, GoesOnUnseen DEF ComesToWait, Submitting
<1> QED  BY <1>8, <1>9, <1>10, <1>11

\* It waits for a sample only when it has submitted enough of them.
LEMMA EarlyAwaits ==
  ASSUME AsyncInv, CountInv, FinalInv, MaxConcurrentSamples <= PendingSize, NothingPut, ComesToWait,
         UNCHANGED trainVars, [Next]_vars, ProcAwaitsSample
  PROVE  NothingPut' /\ ComesToWait'
<1>0. LockInv /\ SyncType /\ FlowType  BY DEF AsyncInv, SyncInv, FlowInv
<1>1. PICK p, f \in Names : p = "proc" /\ f = "feed"  BY DEF Names
<1>2. /\ Runs(Co("proc")) /\ pc["proc"] = "top" /\ ~paused /\ pendingQueue = <<>> /\ LockUnchanged
      /\ ready' = Tail(ready) \o <<>> /\ pc'["proc"] = "getting" /\ pc'["feed"] = pc["feed"]
      /\ UNCHANGED <<pendingQueue, cancelQueue, hand, task, finished, failed, stalenessSamples, globalSteps,
                     doneBound, serversPaused, queue, rpc, tpc, paused>>
  BY <1>0 DEF ProcAwaitsSample, Suspend, Goto, SyncType, Names, trainVars, flowVars, modeVars, restVars, mqVars
<1>3. FedTo' = FedTo /\ TakenTo' = TakenTo /\ FedTo \in Nat /\ TakenTo = FedTo
  <2>1. FedTo \in Nat /\ Len(pendingQueue) = 0  BY <1>2, FeedUpTo, EmptySeq DEF AsyncInv
  <2> QED  BY <1>2, <2>1 DEF FedTo, TakenTo
<1>4. /\ ready \in Seq(Coroutines) /\ ready /= <<>> /\ Head(ready) = Co("proc") /\ Once(ready, Co("proc"))
  BY <1>0, <1>1, <1>2 DEF LockInv, Runs
<1>5. pc["feed"] /= "done"
  <2> SUFFICES ASSUME pc["feed"] = "done" PROVE FALSE  OBVIOUS
  <2>1. TakenTo = End  BY <1>3 DEF FedTo
  <2> QED  BY <1>2, <2>1 DEF FinalInv
<1>6. FedEnough
  <2>1. ~Before(ready, {Co("feed")}, Co("proc"))  BY <1>4, HeadBefore
  <2> QED  BY <1>2, <1>3, <2>1 DEF ComesToWait
<1>7. TakenTo >= MaxConcurrentSamples /\ TakenTo > 0
  <2>1. hand = NoSample  BY <1>0, <1>2 DEF FlowType, InHand
  <2>2. MaxConcurrentSamples \in Nat \ {0}  BY <2>1, EarlyLive
  <2>3. FedTo >= PendingSize /\ PendingSize \in Nat  BY <1>5, <1>6, RollouterAssumption DEF FedEnough
  <2> QED  BY <1>3, <2>2, <2>3
<1>8. NoneStarted  BY <1>2, <1>7 DEF ComesToWait, Submitting
<1>9. NoneStarted'
  <2>1. TasksAt({"created"})' = TasksAt({"created"})  BY <1>2 DEF TasksAt
  <2>2. pc["feed"] \in {"put", "putDone"} /\ ~Before(ready, TasksAt({"created"}), Co("feed"))
    BY <1>5, <1>8 DEF NoneStarted
  <2>3. <<>> \in Seq(Coroutines) /\ ~In(<<>>, Co("feed"))  BY EmptyNamed
  <2>4. ~Before(Tail(ready) \o <<>>, TasksAt({"created"}), Co("feed"))  BY <1>4, <2>2, <2>3, BeforeKept
  <2>5. ~Before(ready', TasksAt({"created"})', Co("feed"))  BY <1>2, <2>1, <2>4
  <2> QED  BY <1>2, <1>8, <2>2, <2>5 DEF NoneStarted
<1>10. holder = Nobody
  <2>1. ~Holding(p, pc[p])  BY <1>1, <1>2 DEF Holding, Entering, Calls
  <2>2. holder /= Co("proc")  BY <1>0, <1>1, <1>2, <2>1, RunsAwake
  <2> QED  BY <1>4, <2>2 DEF NothingPut, Runs
<1>11. NothingPut'  BY <1>2, <1>3, <1>10 DEF NothingPut, LockUnchanged
<1>12. FedEnough'  BY <1>2, <1>3, <1>6 DEF FedEnough
<1>13. pc["feed"] /= "none"  BY <1>2 DEF ComesToWait
<1>14. ComesToWait'  BY <1>2, <1>3, <1>5, <1>7, <1>9, <1>12, <1>13 DEF ComesToWait
<1> QED  BY <1>11, <1>14

\* It submits the sample in hand: its task comes last in the run queue.
LEMMA EarlySubmits ==
  ASSUME AsyncInv, NothingPut, ComesToWait, UNCHANGED trainVars, [Next]_vars, ProcSubmits
  PROVE  NothingPut' /\ ComesToWait'
<1>0. LockInv /\ SyncType /\ FlowType /\ TasksRun  BY DEF AsyncInv, SyncInv, FlowInv
<1>1. PICK p, f \in Names : p = "proc" /\ f = "feed"  BY DEF Names
<1>2. /\ Runs(Co("proc")) /\ pc["proc"] = "submit" /\ ~paused /\ Release
      /\ task' = [task EXCEPT ![hand] = "created"] /\ hand' = NoSample
      /\ ready' = ready \o (<<Task(hand)>> \o NextOwner)
      /\ pc'["proc"] = "top" /\ pc'["feed"] = pc["feed"]
      /\ UNCHANGED <<pendingQueue, cancelQueue, finished, failed, stalenessSamples, globalSteps,
                     doneBound, serversPaused, queue, rpc, tpc, paused>>
  BY <1>0 DEF ProcSubmits, GoOn, Goto, SyncType, Names, trainVars, modeVars, restVars, mqVars
<1>3. hand \in Samples /\ task[hand] = "none"
  <2>1. hand \in Samples  BY <1>0, <1>2 DEF FlowType, InHand
  <2> QED  BY <2>1 DEF AsyncInv, FlowInv, PlacedOnce
<1>4. FedTo' = FedTo /\ TakenTo' = TakenTo /\ (FedEnough' <=> FedEnough)
  BY <1>2 DEF FedTo, TakenTo, FedEnough
<1>5. NextOwner = <<>> /\ holder' = Nobody /\ lockQueue' = <<>> /\ ready \in Seq(Coroutines)
  BY <1>0, <1>1, <1>2, EarlyLock
<1>6. PICK w \in Seq(Coroutines) : ready' = ready \o w /\ ~In(w, Co("feed"))
  <2>1. Task(hand) \in Coroutines  BY <1>3 DEF Coroutines
  <2>2. <<Task(hand)>> \in Seq(Coroutines)  BY <2>1
  <2>3. <<Task(hand)>> \o <<>> = <<Task(hand)>>  BY <2>2, ConcatEmptySeq
  <2>4. Task(hand) /= Co("feed")  BY <1>1, <1>3, Distinct
  <2>5. ~In(<<Task(hand)>>, Co("feed"))  BY <2>4 DEF In
  <2> QED  BY <1>2, <1>5, <2>2, <2>3, <2>5
<1>7. Runs(Co("proc"))'
  <2>1. ready' /= <<>> /\ Head(ready') = Co("proc")  BY <1>2, <1>5, <1>6, RunsOn
  <2> QED  BY <2>1 DEF Runs
<1>8. \A s \in Samples : task'[s] = IF s = hand THEN "created" ELSE task[s]  BY <1>0, <1>2 DEF SyncType
<1>9. NothingPut'
  <2>1. \A s \in Samples : /\ task'[s] \in {"none", "created", "sent", "generating", "completed"}
                           /\ s <= TakenTo => task'[s] /= "none"
    BY <1>8 DEF NothingPut
  <2> QED  BY <1>2, <1>4, <1>5, <2>1 DEF NothingPut
<1>10. TakenTo > 0 /\ FedEnough /\ NoneStarted /\ pc["feed"] /= "none"
  BY <1>2 DEF ComesToWait, Submitting
<1>11. NoneStarted'
  <2>1. \A s \in Samples : task'[s] \in {"none", "created"}  BY <1>8, <1>10 DEF NoneStarted
  <2>2. CASE pc["feed"] = "done"  BY <1>2, <2>1, <2>2 DEF NoneStarted
  <2>3. CASE pc["feed"] /= "done"
    <3>1. pc["feed"] \in {"put", "putDone"} /\ ~Before(ready, TasksAt({"created"}), Co("feed"))
      BY <1>10, <2>3 DEF NoneStarted
    <3>2. ASSUME Before(ready', TasksAt({"created"})', Co("feed")) PROVE FALSE
      <4> DEFINE S == TasksAt({"created"})'
      <4>1. S \subseteq TasksAt({"created"}) \union {Task(hand)}  BY <1>8 DEF TasksAt
      <4>2. Before(ready \o w, S, Co("feed"))  BY <1>6, <3>2
      <4> HIDE DEF S
      <4>3. Before(ready, S, Co("feed"))  BY <1>5, <1>6, <4>2, BeforeKept
      <4>4. ~In(ready, Task(hand))  BY <1>0, <1>3 DEF TasksRun, TaskAwake
      <4>5. Before(ready, TasksAt({"created"}), Co("feed"))  BY <4>1, <4>3, <4>4 DEF Before, In
      <4> QED  BY <3>1, <4>5
    <3> QED  BY <1>2, <2>1, <3>1, <3>2 DEF NoneStarted
  <2> QED  BY <2>2, <2>3
<1>12. ComesToWait'  BY <1>2, <1>4, <1>7, <1>10, <1>11 DEF ComesToWait
<1> QED  BY <1>9, <1>12

LEMMA InitEarly == Init => EarlyInv
<1> SUFFICES ASSUME Init PROVE NothingPut /\ ComesToWait  BY DEF EarlyInv
<1>1. /\ pc["proc"] = "none" /\ pc["feed"] = "none" /\ tpc = "firstLog" /\ globalSteps = 1 /\ pendingQueue = <<>>
      /\ queue = <<>> /\ serversPaused = FALSE /\ cancelQueue = <<>> /\ finished = 0 /\ failed = {}
      /\ lockQueue = <<>> /\ holder = Nobody /\ stalenessSamples = 0 /\ paused = FALSE
      /\ task = [s \in Samples |-> "none"] /\ rpc = [c \in Calls |-> "idle"]
  BY DEF Init, RolloutInit, SharedInit, TrainInit, Names
<1>2. TakenTo = 0  BY <1>1, EmptySeq DEF TakenTo, FedTo
<1>3. \A s \in Samples : ~(s <= TakenTo)  BY <1>2, SharedAssumption DEF Samples
<1>4. NothingPut  BY <1>1, <1>2, <1>3 DEF NothingPut
<1>5. ComesToWait  BY <1>1, <1>2 DEF ComesToWait, Submitting
<1> QED  BY <1>4, <1>5

\* It was so before, until the processor waits.
LEMMA WasEarly ==
  ASSUME SyncInv, [Next]_vars, Early'
  PROVE  Early
<1>0. Written /\ Moved /\ SyncType /\ Begun  BY Frames DEF SyncInv
<1>1. ~doneBound' /\ pc'["proc"] \notin {"waiting", "returned"}  BY DEF Early
<1>2. ~ProcReaps  BY <1>1 DEF ProcReaps
<1>3. ~doneBound  BY <1>0, <1>1, <1>2 DEF Written
<1>4. ASSUME pc["proc"] \in {"waiting", "returned"} PROVE FALSE
  <2>1. ~Processor
    BY <1>2, <1>4 DEF Processor, ProcPauses, ProcSetsPaused, ProcTakesCancelled, ProcTakes, ProcAwaitsSample,
       ProcLoopEnds, ProcLoopAcquires, ProcWaits, ProcSkipsWait, ProcIdles, ProcHoldsBack, ProcSubmits, ProcNotified
  <2>2. ~MainStart  BY <1>0, <1>4 DEF MainStart, Begun
  <2>3. FeedPut \/ ResumeReturns \/ MonitorUnpauses => pc'["proc"] = pc["proc"]
    BY <1>0, <1>4 DEF FeedPut, ResumeReturns, MonitorUnpauses, Notified, SyncType, Names
  <2>4. (\E s \in Samples : TaskEnds(s)) => pc'["proc"] = "returned"
    BY <1>0, <1>4 DEF TaskEnds, PcAfterTaskEnd, SyncType, Names
  <2> QED  BY <1>0, <1>1, <1>4, <2>1, <2>2, <2>3, <2>4 DEF Moved
<1> QED  BY <1>3, <1>4 DEF Early

LEMMA NextEarly ==
  ASSUME AsyncInv, CountInv, OverInv, FinalInv, Standing, EarlyInv,
         MaxFailures = 0, MaxConcurrentSamples <= PendingSize, [Next]_vars
  PROVE  EarlyInv'
<1> SUFFICES ASSUME Early' PROVE NothingPut' /\ ComesToWait'  BY DEF EarlyInv
<1>1. Early /\ NothingPut /\ ComesToWait /\ LockInv /\ SyncInv /\ SyncType
  BY WasEarly DEF EarlyInv, AsyncInv, SyncInv
<1>2. Unseen => NothingPut' /\ ComesToWait'  BY <1>1, EarlyUnseen
<1>3. CASE Train \/ RunnerClears \/ UNCHANGED vars  BY <1>1, <1>2, <1>3, EarlyTrain
<1>4. CASE Rollout
  <2>1. UNCHANGED trainVars /\ (LoopStep \/ Arrival \/ MonitorTimer)  BY <1>4 DEF Rollout, RolloutNext
  <2>2. CASE MainWoken \/ MainAcquires \/ MainStops \/ FinishSignalArrives \/ Monitor \/ MonitorTimer
    BY <1>1, <1>2, <2>1, <2>2, EarlyOthers
  <2>3. CASE MainStart  BY <1>1, <2>1, <2>3, EarlyStarts
  <2>4. CASE FeedPut \/ FeedBlocks  BY <1>1, <2>1, <2>4, EarlyFeeds
  <2>5. ASSUME NEW t \in Samples, TaskStarts(t) \/ TaskCompletes(t) \/ TaskEnds(t) \/ Generation(t)
        PROVE  NothingPut' /\ ComesToWait'
    BY <1>1, <2>1, <2>5, EarlyTask
  <2>6. CASE Processor
    <3>1. \/ ProcPauses \/ ProcSetsPaused \/ ProcTakes \/ ProcAwaitsSample \/ ProcLoopEnds \/ ProcLoopAcquires
          \/ ProcWaits \/ ProcSubmits
      BY <1>1, <2>6, EarlySteps
    <3>2. ~ProcWaits
      <4>1. ProcWaits => pc'["proc"] \in {"returned", "waiting"}  BY <1>1 DEF ProcWaits, Goto, SyncType, Names
      <4> QED  BY <4>1 DEF Early
    <3>3. CASE ProcPauses \/ ProcSetsPaused \/ ProcLoopEnds \/ ProcLoopAcquires
      BY <1>1, <2>1, <3>3, EarlyGoesOn
    <3>4. CASE ProcTakes  BY <1>1, <2>1, <3>4, EarlyTakes
    <3>5. CASE ProcAwaitsSample  BY <1>1, <2>1, <3>5, EarlyAwaits
    <3>6. CASE ProcSubmits  BY <1>1, <2>1, <3>6, EarlySubmits
    <3> QED  BY <3>1, <3>2, <3>3, <3>4, <3>5, <3>6
  <2>7. ~PauseSteps /\ ~UpdateSteps /\ ~ResumeSteps /\ \A c \in Calls : ~CallArrives(c) /\ ~CallAcquires(c)
    BY <1>1, EarlyCalls DEF NothingPut
  <2>8. CASE LoopStep
    <3>1. \/ MainStart \/ MainWoken \/ MainAcquires \/ MainStops \/ FeedPut \/ FeedBlocks
          \/ Processor \/ Monitor
          \/ \E s \in Samples : TaskStarts(s) \/ TaskCompletes(s) \/ TaskEnds(s)
          \/ \E c \in Calls : CallAcquires(c)
          \/ PauseSteps \/ UpdateSteps \/ ResumeSteps
      BY <2>8 DEF LoopStep, PauseSteps, UpdateSteps, ResumeSteps
    <3> QED  BY <2>2, <2>3, <2>4, <2>5, <2>6, <2>7, <3>1
  <2>9. CASE Arrival
    <3>1. \/ FinishSignalArrives \/ \E s \in Samples : Generation(s)
          \/ \E c \in Calls : CallArrives(c)
          \/ PauseSteps \/ UpdateSteps \/ ResumeSteps
      BY <2>9 DEF Arrival, PauseSteps, UpdateSteps, ResumeSteps
    <3> QED  BY <2>2, <2>5, <2>7, <3>1
  <2> QED  BY <2>1, <2>2, <2>8, <2>9
<1> QED  BY <1>3, <1>4 DEF Next, Terminated
-----------------------------------------------------------------------------
(* With fewer samples generated at a time than a synchronisation takes, the*)
(* processor has waited for its tasks before the first one.                *)

LEMMA ActiveSum ==
  ASSUME CountInv
  PROVE  /\ Live \in SUBSET Samples /\ IsFiniteSet(Live) /\ Cardinality(Live) \in Nat
         /\ finished \in Nat /\ Cardinality(failed) \in Nat /\ ActiveTasks \in Nat
         /\ ActiveTasks = Cardinality(Live) + finished + Cardinality(failed)
         /\ Passed \in SUBSET Samples /\ Cardinality(Passed) \in Nat
<1>1. Live \in SUBSET Samples /\ Passed \in SUBSET Samples  BY DEF Live, Passed
<1>2. failed \in SUBSET Samples /\ finished \in Nat  BY DEF CountInv
<1>3. Cardinality(failed) \in Nat /\ Cardinality(Live) \in Nat /\ IsFiniteSet(Live) /\ Cardinality(Passed) \in Nat
  BY <1>1, <1>2, Finite
<1>4. ActiveTasks = Cardinality(Live) + finished + Cardinality(failed)  BY DEF ActiveTasks
<1> QED  BY <1>1, <1>2, <1>3, <1>4

LEMMA InitFew == Init => FewInv
<1> SUFFICES ASSUME Init PROVE Unsynced /\ Filling  BY DEF FewInv
<1>1. /\ pc["proc"] = "none" /\ pc["feed"] = "none" /\ tpc = "firstLog" /\ globalSteps = 1 /\ pendingQueue = <<>>
      /\ serversPaused = FALSE /\ cancelQueue = <<>> /\ finished = 0 /\ failed = {} /\ trainerVersion = 0
      /\ stalenessSamples = 0 /\ paused = FALSE
      /\ task = [s \in Samples |-> "none"] /\ rpc = [c \in Calls |-> "idle"]
  BY DEF Init, RolloutInit, SharedInit, TrainInit, Names
<1>2. TakenTo = 0  BY <1>1, EmptySeq DEF TakenTo, FedTo
<1>3. Passed = {}  BY <1>2, SharedAssumption DEF Passed, Samples
<1>4. Live = {} /\ Cardinality({}) = 0  BY <1>1, FS_EmptySet DEF Live
<1>5. ActiveTasks = 0  BY <1>1, <1>4 DEF ActiveTasks
<1>6. MaxConcurrentSamples \in Nat \ {0}
  <2>1. MaxRequiredSamples \in Nat \ {0} /\ ServerSlots \in Nat \ {0}  BY Finite, RollouterAssumption
  <2> QED  BY <2>1 DEF MaxConcurrentSamples
<1>7. Unsynced  BY <1>1 DEF Unsynced
<1>8. Filling  BY <1>1, <1>2, <1>3, <1>4, <1>5, <1>6 DEF Filling
<1> QED  BY <1>7, <1>8

\* What is taken and not in hand keeps a task in active_tasks.
LEMMA FewTaken ==
  ASSUME AsyncInv, CountInv, OverInv, Filling, [Next]_vars, hand = NoSample
  PROVE  /\ TakenTo \in Nat
         /\ TakenTo > 0 => ActiveTasks > 0
         /\ queue /= <<>> => TakenTo > 0
<1>1. TakenTo \in Nat  BY NextTaken DEF AsyncInv
<1>2. ASSUME TakenTo > 0 PROVE ActiveTasks > 0
  <2>1. 1 \in Passed  BY <1>1, <1>2, Sizes DEF Passed, Samples
  <2>2. Cardinality(Passed) /= 0
    <3>1. IsFiniteSet(Passed)  BY ActiveSum, Finite
    <3> QED  BY <2>1, <3>1, FS_EmptySet
  <2> QED  BY <2>2, ActiveSum DEF Filling
<1>3. ASSUME queue /= <<>> PROVE TakenTo > 0
  <2>1. queue \in Seq(1 .. End)  BY DEF AsyncInv, FlowInv, FlowType
  <2>2. Head(queue) \in 1 .. End /\ In(queue, Head(queue))  BY <1>3, <2>1, HeadLeaves
  <2>3. Head(queue) /= End
    <3>1. ~ProcOver  BY DEF Filling, ProcOver
    <3>2. pc["main"] \notin {"sent", "stop", "done"}  BY <3>1 DEF OverInv
    <3> QED  BY <2>2, <3>2 DEF OverInv
  <2>4. Head(queue) \in Samples /\ Head(queue) \in Nat \ {0}  BY <2>2, <2>3, Sizes DEF Samples
  <2>5. ~(Head(queue) > TakenTo)  BY <2>2, <2>4 DEF AsyncInv, FlowInv, PlacedOnce
  <2> QED  BY <1>1, <2>4, <2>5
<1> QED  BY <1>1, <1>2, <1>3

\* The trainer is not given enough for a synchronisation.
LEMMA FewGiven ==
  ASSUME AsyncInv, CountInv, GivenInv, Unsynced, Filling, MaxConcurrentSamples < SamplesPerSync, [Next]_vars,
         tpc = "train"
  PROVE  localTriggerStep < TriggerSteps
<1>1. /\ RequiredSamples \in Nat /\ TriggerSteps \in Nat /\ SamplesPerSync = RequiredSamples * TriggerSteps
      /\ localTriggerStep \in Nat /\ localTriggerStep <= TriggerSteps
  BY Sizes DEF GivenInv
<1>2. Cardinality(Given) = RequiredSamples * (localTriggerStep - 1) + RequiredSamples
  <2>1. ~Ended /\ Cardinality(batch) = RequiredSamples /\ trainerVersion = 0  BY DEF Ended, GivenInv, Unsynced
  <2>2. Cardinality(Given) = SamplesPerSync * 0 + RequiredSamples * (localTriggerStep - 1) + RequiredSamples
    BY <2>1 DEF GivenInv
  <2>3. SamplesPerSync * 0 = 0 /\ RequiredSamples * (localTriggerStep - 1) \in Int  BY Sizes, <1>1
  <2> QED  BY <1>1, <2>2, <2>3
<1>3. Given \subseteq Passed
  <2> SUFFICES ASSUME NEW s \in Given PROVE s \in Passed  OBVIOUS
  <2>1. s \in Samples /\ s \in Trained  BY DEF Given, Trained
  <2>2. ~(s > TakenTo) /\ s /= hand  BY <2>1 DEF AsyncInv, FlowInv, PlacedOnce
  <2>3. TakenTo \in Nat /\ s \in Nat  BY <2>1, NextTaken DEF AsyncInv, Samples
  <2> QED  BY <2>1, <2>2, <2>3 DEF Passed
<1>4. Cardinality(Given) <= Cardinality(Passed) /\ Cardinality(Given) \in Nat
  <2>1. Passed \in SUBSET Samples /\ Given \in SUBSET Passed /\ Given \in SUBSET Samples
    BY <1>3, ActiveSum DEF Given
  <2> QED  BY <2>1, Finite
<1>5. MaxConcurrentSamples \in Nat
  <2>1. MaxRequiredSamples \in Nat \ {0} /\ ServerSlots \in Nat \ {0}  BY Finite, RollouterAssumption
  <2> QED  BY <2>1 DEF MaxConcurrentSamples
<1>6. Cardinality(Given) < SamplesPerSync
  BY <1>4, <1>5, ActiveSum, Sizes DEF Filling
<1>7. ASSUME localTriggerStep = TriggerSteps PROVE FALSE
  <2>1. Cardinality(Given) = RequiredSamples * (TriggerSteps - 1) + RequiredSamples  BY <1>2, <1>7
  <2>2. RequiredSamples * (TriggerSteps - 1) + RequiredSamples = RequiredSamples * TriggerSteps  BY <1>1
  <2> QED  BY <1>1, <1>4, <1>6, <2>1, <2>2, Sizes
<1> QED  BY <1>1, <1>7

\* Only a submission adds to active_tasks, and until the processor has waited
\* nothing is removed.
LEMMA FewActive ==
  ASSUME AsyncInv, CountInv, NoneFails, Unsynced, [Next]_vars, Early'
  PROVE  ActiveTasks' = IF ProcSubmits THEN ActiveTasks + 1 ELSE ActiveTasks
<1>0. /\ Written /\ SyncInv /\ FlowInv /\ FlowType /\ task \in [Samples -> TaskStates]
      /\ Live \in SUBSET Samples /\ IsFiniteSet(Live) /\ Cardinality(Live) \in Nat /\ finished \in Nat
      /\ Cardinality(failed) \in Nat
      /\ ActiveTasks = Cardinality(Live) + finished + Cardinality(failed)
  BY Frames, ActiveSum DEF AsyncInv, SyncInv, FlowInv, FlowType
<1>1. ~ProcReaps  BY DEF ProcReaps, Early
<1>2. ~PauseGathered  BY EarlyCalls DEF Unsynced, PauseSteps
<1>3. ASSUME NEW t \in Samples, TaskEnds(t)
      PROVE  ActiveTasks' = ActiveTasks /\ ~ProcSubmits
  <2>1. task[t] \in {"put", "cancelled", "raised"} /\ task' = [task EXCEPT ![t] = "none"] /\ task[t] /= "raised"
    BY <1>3 DEF TaskEnds, NoneFails
  <2>2. finished' = finished + 1 /\ failed' = failed /\ hand' = hand  BY <1>3, <2>1 DEF TaskEnds
  <2>3. Live' = Live \ {t} /\ t \in Live  BY <1>0, <2>1 DEF Live
  <2>4. Cardinality(Live \ {t}) = Cardinality(Live) - 1  BY <1>0, <2>3, FS_RemoveElement
  <2>5. ActiveTasks' = Cardinality(Live') + finished' + Cardinality(failed')  BY DEF ActiveTasks
  <2>6. ~ProcSubmits
    <3> SUFFICES ASSUME ProcSubmits PROVE FALSE  OBVIOUS
    <3>1. hand \in Samples  BY <1>0 DEF ProcSubmits, FlowType, InHand
    <3>2. hand' /= hand  BY <3>1, Sizes DEF ProcSubmits
    <3> QED  BY <2>2, <3>2
  <2> QED  BY <1>0, <2>2, <2>3, <2>4, <2>5, <2>6
<1>4. CASE ProcSubmits
  <2>1. hand \in Samples /\ task[hand] = "none"  BY <1>0, <1>4, Sizes DEF ProcSubmits, FlowType, InHand, FlowInv, PlacedOnce
  <2>2. task' = [task EXCEPT ![hand] = "created"] /\ finished' = finished /\ failed' = failed
    BY <1>4 DEF ProcSubmits
  <2>3. Live' = Live \union {hand} /\ hand \notin Live  BY <1>0, <2>1, <2>2 DEF Live
  <2>4. Cardinality(Live \union {hand}) = Cardinality(Live) + 1  BY <1>0, <2>3, FS_AddElement
  <2>5. ActiveTasks' = Cardinality(Live') + finished' + Cardinality(failed')  BY DEF ActiveTasks
  <2> QED  BY <1>0, <1>4, <2>2, <2>3, <2>4, <2>5
<1>5. CASE ~ProcSubmits /\ ~\E t \in Samples : TaskEnds(t)
  <2>1. finished' = finished /\ failed' = failed  BY <1>0, <1>1, <1>2, <1>5 DEF Written
  <2>2. \A s \in Samples : task'[s] = "none" <=> task[s] = "none"
    <3> SUFFICES ASSUME NEW s \in Samples PROVE task'[s] = "none" <=> task[s] = "none"  OBVIOUS
    <3>1. TaskMoves(s)  BY <1>0, NextTask
    <3>2. ~ProcSubmits /\ ~TaskEnds(s)  BY <1>5
    <3> QED  BY <3>1, <3>2 DEF TaskMoves
  <2>3. Live' = Live  BY <2>2 DEF Live
  <2>4. ActiveTasks' = Cardinality(Live') + finished' + Cardinality(failed')  BY DEF ActiveTasks
  <2> QED  BY <1>0, <1>5, <2>1, <2>3, <2>4
<1> QED  BY <1>3, <1>4, <1>5

\* A sample passes when it is submitted.
LEMMA FewPassed ==
  ASSUME AsyncInv, Unsynced, [Next]_vars
  PROVE  /\ ~ProcSubmits => Passed' = Passed
         /\ ProcSubmits => Passed' \subseteq Passed \union {hand} /\ TakenTo' = TakenTo
<1>0. Written /\ FlowType /\ SyncInv /\ FlowInv  BY Frames DEF AsyncInv, SyncInv, FlowInv
<1>1. /\ TakenTo \in Nat /\ TakenTo <= End
      /\ TakenTo' = TakenTo \/ (ProcTakes /\ TakenTo' = TakenTo + 1 /\ Head(pendingQueue) = TakenTo + 1)
  BY <1>0, NextTaken
<1>2. ~ProcTakesCancelled  BY DEF ProcTakesCancelled, Unsynced
<1>3. CASE ProcTakes
  <2>1. /\ pc["proc"] \in {"top", "takes"} /\ pendingQueue /= <<>>
        /\ hand' = IF Head(pendingQueue) = End THEN NoSample ELSE Head(pendingQueue)
    BY <1>3 DEF ProcTakes
  <2>2. hand = NoSample  BY <1>0, <2>1 DEF FlowType, InHand
  <2>3. ~ProcSubmits  BY <2>1 DEF ProcSubmits
  <2>4. Head(pendingQueue) = TakenTo + 1
    <3>1. /\ pendingQueue \in Seq(Nat) /\ \A i \in 1 .. Len(pendingQueue) : pendingQueue[i] = TakenTo + i
      BY <1>0 DEF FlowType
    <3>2. Head(pendingQueue) = pendingQueue[1] /\ 1 \in 1 .. Len(pendingQueue)
      BY <2>1, <3>1, EmptySeq, LenProperties
    <3> QED  BY <3>1, <3>2
  <2>5. \A s \in Samples : (s <= TakenTo' /\ s /= hand') <=> (s <= TakenTo /\ s /= hand)
    <3> SUFFICES ASSUME NEW s \in Samples
                 PROVE  (s <= TakenTo' /\ s /= hand') <=> (s <= TakenTo /\ s /= hand)
      OBVIOUS
    <3>1. s \in Nat /\ s < End /\ s /= NoSample /\ End \in Nat  BY Sizes DEF Samples
    <3>2. CASE TakenTo' = TakenTo
      <4>1. s <= TakenTo => s /= TakenTo + 1  BY <1>1, <3>1
      <4>2. s <= TakenTo => s /= hand'  BY <2>1, <2>4, <3>1, <4>1
      <4> QED  BY <2>2, <3>1, <3>2, <4>2
    <3>3. CASE TakenTo' = TakenTo + 1
      <4>1. hand' = IF TakenTo + 1 = End THEN NoSample ELSE TakenTo + 1  BY <2>1, <2>4
      <4>2. s <= TakenTo + 1 /\ s /= TakenTo + 1 <=> s <= TakenTo  BY <1>1, <3>1
      <4>3. TakenTo + 1 = End => s /= TakenTo + 1  BY <3>1
      <4> QED  BY <2>2, <3>1, <3>3, <4>1, <4>2, <4>3
    <3> QED  BY <1>1, <3>2, <3>3
  <2> QED  BY <2>3, <2>5 DEF Passed
<1>4. CASE ProcSubmits
  <2>1. ~ProcTakes  BY <1>4 DEF ProcSubmits, ProcTakes
  <2>2. TakenTo' = TakenTo  BY <1>1, <2>1
  <2> QED  BY <1>4, <2>2 DEF Passed
<1>5. CASE ~ProcTakes /\ ~ProcSubmits
  <2>1. hand' = hand /\ TakenTo' = TakenTo  BY <1>0, <1>1, <1>2, <1>5 DEF Written
  <2> QED  BY <1>5, <2>1 DEF Passed
<1> QED  BY <1>3, <1>4, <1>5

LEMMA FewSync ==
  ASSUME AsyncInv, CountInv, GivenInv, OverInv, MaxConcurrentSamples < SamplesPerSync, Unsynced, Filling,
         [Next]_vars
  PROVE  Unsynced'
<1>0. Written /\ SyncInv /\ SyncType /\ FlowInv  BY Frames DEF AsyncInv, SyncInv
<1>1. /\ \A c \in Calls : rpc[c] = "idle"
      /\ tpc \in {"firstLog", "collect", "train", "log", "save"} /\ trainerVersion = 0
      /\ serversPaused = FALSE /\ cancelQueue = <<>>
      /\ \A s \in Samples : task[s] \notin {"interrupted", "refused", "cancelled"}
  BY DEF Unsynced
<1>2. ~PauseSteps /\ ~UpdateSteps /\ ~ResumeSteps /\ \A c \in Calls : ~CallArrives(c) /\ ~CallAcquires(c)
  BY <1>1, EarlyCalls
<1>3. rpc' = rpc
  <2>1. ~SyncPauses /\ ~SyncTransfers  BY <1>1 DEF SyncPauses, SyncTransfers
  <2> QED  BY <1>0, <1>2, <2>1 DEF Written, PauseSteps, UpdateSteps, ResumeSteps
<1>4. tpc' \in {"firstLog", "collect", "train", "log", "save"} /\ trainerVersion' = 0
  <2>1. CASE UNCHANGED trainVars  BY <1>1, <2>1 DEF trainVars, stepVars
  <2>2. CASE LogValidation
    <3>1. tpc \in {"firstLog", "log"} /\ tpc' = AfterLog(tpc) /\ trainerVersion' = trainerVersion
      BY <1>1, <2>2 DEF LogValidation, LogLabels, stepVars
    <3> QED  BY <1>1, <3>1 DEF AfterLog
  <2>3. CASE CollectWaits  BY <1>1, <2>3 DEF CollectWaits, trainVars, stepVars
  <2>4. CASE Collect
    <3>1. queue /= <<>> /\ queue \in Seq(1 .. End)  BY <1>0, <2>4, Collected DEF FlowInv, FlowType
    <3>2. In(queue, Head(queue))  BY <3>1, HeadLeaves
    <3>3. ~ProcOver  BY DEF Filling, ProcOver
    <3>4. pc["main"] \notin {"sent", "stop", "done"}  BY <3>3 DEF OverInv
    <3>5. Head(queue) /= End  BY <3>2, <3>4 DEF OverInv
    <3> QED  BY <1>1, <2>4, <3>5 DEF Collect, stepVars
  <2>5. CASE TrainStep
    <3>1. tpc = "train"  BY <2>5 DEF TrainStep
    <3>2. localTriggerStep < TriggerSteps  BY <3>1, FewGiven
    <3>3. localTriggerStep \in Nat /\ TriggerSteps \in Nat  BY Sizes DEF GivenInv
    <3> QED  BY <1>1, <2>5, <3>2, <3>3 DEF TrainStep
  <2>6. CASE SaveCheckpoint  BY <1>1, <2>6 DEF SaveCheckpoint
  <2>7. ~SyncPauses /\ ~SyncVersions /\ ~SyncTransfers /\ ~LastWait /\ ~DecideExtraSync
    BY <1>1 DEF SyncPauses, SyncVersions, SyncTransfers, LastWait, DecideExtraSync
  <2> QED  BY <1>0, <2>1, <2>2, <2>3, <2>4, <2>5, <2>6, <2>7 DEF Written, TrainNext
<1>5. serversPaused' = FALSE  BY <1>0, <1>1, <1>2 DEF Written, PauseSteps, ResumeSteps
<1>6. cancelQueue' = <<>>
  <2>1. ~ProcTakesCancelled  BY <1>1 DEF ProcTakesCancelled
  <2>2. ASSUME NEW t \in Samples, TaskEnds(t) PROVE cancelQueue' = cancelQueue
    <3>1. task[t] /= "cancelled"  BY <1>1
    <3> QED  BY <2>2, <3>1 DEF TaskEnds
  <2> QED  BY <1>0, <1>1, <2>1, <2>2 DEF Written
<1>7. ASSUME NEW s \in Samples, task'[s] \in {"interrupted", "refused", "cancelled"} PROVE FALSE
  <2>1. task'[s] /= task[s]  BY <1>1, <1>7
  <2>2. /\ task'[s] = "interrupted" => ServersCancel
        /\ task'[s] = "refused" => serversPaused
        /\ task'[s] = "cancelled" => task[s] \in {"interrupted", "refused"}
    BY <1>0, <2>1, Answers
  <2> QED  BY <1>1, <1>2, <1>7, <2>2 DEF PauseSteps
<1>8. \A c \in Calls : rpc'[c] = "idle"  BY <1>1, <1>3
<1> QED  BY <1>4, <1>5, <1>6, <1>7, <1>8 DEF Unsynced

\* The processor's own steps, and those of the others.
LEMMA FewSteps ==
  ASSUME AsyncInv, CountInv, OverInv, FinalInv, NoneFails, Unsynced, Filling, [Next]_vars, Early'
  PROVE  Filling'
<1>0. /\ Written /\ Moved /\ SyncInv /\ SyncType /\ FlowInv /\ FlowType /\ LockInv
  BY Frames DEF AsyncInv, SyncInv, FlowInv
<1>1. /\ pc["proc"] \in {"none", "top", "setPaused", "getting", "takes", "loop", "check", "submit"}
      /\ Cardinality(Passed) <= ActiveTasks /\ ActiveTasks <= MaxConcurrentSamples
      /\ pc["proc"] = "submit" => ActiveTasks < MaxConcurrentSamples
      /\ pc["proc"] \in {"setPaused", "check"} => ActiveTasks > 0
      /\ pc["proc"] = "loop" => ActiveTasks > 0 \/ waitFor = "slots"
      /\ paused => pc["proc"] \in {"loop", "check"} /\ waitFor = "drain"
      /\ stalenessSamples <= TakenTo
  BY DEF Filling
<1>2. ~PauseSteps /\ ~UpdateSteps /\ ~ResumeSteps /\ cancelQueue = <<>>  BY EarlyCalls DEF Unsynced
<1>3. ActiveTasks \in Nat /\ Cardinality(Passed) \in Nat /\ Passed \in SUBSET Samples  BY ActiveSum
<1>4. MaxConcurrentSamples \in Nat \ {0} /\ MaxRequiredSamples \in Nat \ {0}
  <2>1. MaxRequiredSamples \in Nat \ {0} /\ ServerSlots \in Nat \ {0}  BY Finite, RollouterAssumption
  <2> QED  BY <2>1 DEF MaxConcurrentSamples
<1>5. TakenTo \in Nat /\ (TakenTo' = TakenTo \/ (ProcTakes /\ TakenTo' = TakenTo + 1))  BY <1>0, NextTaken
<1>6. /\ ~ProcSubmits => ActiveTasks' = ActiveTasks /\ Passed' = Passed
      /\ ProcSubmits => ActiveTasks' = ActiveTasks + 1 /\ Passed' \subseteq Passed \union {hand}
  BY FewActive, FewPassed
<1>7. stalenessSamples \in Nat /\ (~ProcTakes => stalenessSamples' = stalenessSamples)
  BY <1>0, <1>2 DEF Written, UpdateSteps, CountInv
<1>8. Early  BY <1>0, WasEarly
<1>9. CASE ProcPauses
  <2>1. /\ pc["proc"] = "top" /\ (paused \/ ShouldPause) /\ pc'["proc"] = "setPaused"
        /\ paused' = paused
    BY <1>0, <1>9 DEF ProcPauses, Goto, SyncType, Names, modeVars
  <2>2. hand = NoSample  BY <1>0, <2>1 DEF FlowType, InHand
  <2>3. ~paused  BY <1>1, <2>1
  <2>4. TakenTo > 0
    <3>1. CASE Len(queue) >= MaxRequiredSamples
      <4>1. queue /= <<>>  BY <1>4, <3>1, EmptySeq
      <4> QED  BY <2>2, <4>1, FewTaken
    <3>2. CASE stalenessSamples >= MaxRequiredSamples  BY <1>1, <1>4, <1>5, <1>7, <3>2
    <3> QED  BY <2>1, <2>3, <3>1, <3>2 DEF ShouldPause
  <2>5. ActiveTasks > 0  BY <2>2, <2>4, FewTaken
  <2>6. ~ProcTakes /\ ~ProcSubmits
    BY <2>1, <1>9, <1>0 DEF ProcTakes, ProcSubmits, Goto, SyncType, Names
  <2> QED  BY <1>1, <1>3, <1>5, <1>6, <1>7, <2>1, <2>3, <2>5, <2>6 DEF Filling
<1>10. CASE ProcSetsPaused
  <2>1. pc["proc"] = "setPaused" /\ pc'["proc"] = "loop" /\ waitFor' = "drain"
    BY <1>0, <1>10 DEF ProcSetsPaused, Goto, SyncType, Names
  <2>2. ~ProcTakes /\ ~ProcSubmits  BY <2>1 DEF ProcTakes, ProcSubmits
  <2> QED  BY <1>1, <1>3, <1>5, <1>6, <1>7, <2>1, <2>2 DEF Filling
<1>11. CASE ProcTakes
  <2>1. /\ pc["proc"] \in {"top", "takes"} /\ pc'["proc"] = "loop" /\ paused' = paused
        /\ waitFor' = IF Head(pendingQueue) = End THEN "final" ELSE "slots"
        /\ stalenessSamples' = stalenessSamples + 1 /\ pendingQueue /= <<>>
    BY <1>0, <1>11 DEF ProcTakes, SyncType, Names, modeVars
  <2>2. ~ProcSubmits  BY <2>1 DEF ProcSubmits
  <2>3. hand = NoSample /\ ~paused  BY <1>0, <1>1, <2>1 DEF FlowType, InHand
  <2>4. TakenTo' = TakenTo + 1
    <3>1. FedTo' = FedTo  BY <1>0, <1>11 DEF ProcTakes, FedTo, SyncType, Names, FeedUnblocked
    <3>2. pendingQueue' = Tail(pendingQueue) /\ pendingQueue \in Seq(Nat)  BY <1>0, <1>11 DEF ProcTakes, FlowType
    <3>3. Len(pendingQueue') = Len(pendingQueue) - 1 /\ Len(pendingQueue) \in Nat
      BY <2>1, <3>2, HeadTailProperties, LenProperties
    <3>4. FedTo \in Nat  BY <1>0, FeedUpTo
    <3> QED  BY <3>1, <3>3, <3>4 DEF TakenTo
  <2>5. waitFor' /= "slots" => ActiveTasks > 0
    <3> SUFFICES ASSUME waitFor' /= "slots" PROVE ActiveTasks > 0  OBVIOUS
    <3>1. FinalInv'  BY NextFinal
    <3>2. TakenTo' = End  BY <2>1, <3>1 DEF FinalInv
    <3>3. TakenTo > 0  BY <1>5, <2>4, <3>2, Sizes
    <3> QED  BY <2>3, <3>3, FewTaken
  <2> QED  BY <1>1, <1>3, <1>5, <1>6, <1>7, <2>1, <2>2, <2>3, <2>4, <2>5 DEF Filling
<1>12. CASE ProcAwaitsSample
  <2>1. pc["proc"] = "top" /\ pc'["proc"] = "getting" /\ paused' = paused
    BY <1>0, <1>12 DEF ProcAwaitsSample, Goto, SyncType, Names, modeVars
  <2>2. ~ProcTakes /\ ~ProcSubmits
    BY <1>0, <1>12, <2>1 DEF ProcAwaitsSample, ProcTakes, ProcSubmits
  <2> QED  BY <1>1, <1>3, <1>5, <1>6, <1>7, <2>1, <2>2 DEF Filling
<1>13. CASE ProcLoopEnds
  <2>1. pc["proc"] = "loop" /\ LoopOver /\ paused' = paused  BY <1>13 DEF ProcLoopEnds, modeVars
  <2>2. waitFor = "slots" /\ ActiveTasks < MaxConcurrentSamples  BY <1>1, <1>3, <2>1 DEF LoopOver
  <2>3. pc'["proc"] = "submit"  BY <1>0, <1>13, <2>2 DEF ProcLoopEnds, Goto, SyncType, Names
  <2>4. ~ProcTakes /\ ~ProcSubmits  BY <2>1 DEF ProcTakes, ProcSubmits
  <2> QED  BY <1>1, <1>3, <1>5, <1>6, <1>7, <2>1, <2>2, <2>3, <2>4 DEF Filling
<1>14. CASE ProcLoopAcquires
  <2>1. /\ pc["proc"] = "loop" /\ ~LoopOver /\ pc'["proc"] = "check" /\ paused' = paused /\ waitFor' = waitFor
    BY <1>0, <1>14 DEF ProcLoopAcquires, Goto, SyncType, Names, modeVars, restVars
  <2>2. ActiveTasks > 0
    <3>1. CASE waitFor = "slots"
      <4>1. ~(ActiveTasks < MaxConcurrentSamples)  BY <2>1, <3>1 DEF LoopOver
      <4> QED  BY <1>3, <1>4, <4>1
    <3> QED  BY <1>1, <2>1, <3>1
  <2>3. ~ProcTakes /\ ~ProcSubmits  BY <2>1 DEF ProcTakes, ProcSubmits
  <2> QED  BY <1>1, <1>3, <1>5, <1>6, <1>7, <2>1, <2>2, <2>3 DEF Filling
<1>15. CASE ProcSubmits
  <2>1. pc["proc"] = "submit" /\ pc'["proc"] = "top" /\ paused' = FALSE
    BY <1>0, <1>15 DEF ProcSubmits, Goto, SyncType, Names, modeVars
  <2>2. ~ProcTakes  BY <2>1 DEF ProcTakes
  <2>3. hand \in Samples  BY <1>0, <2>1 DEF FlowType, InHand
  <2>4. Passed' \in SUBSET Samples /\ Passed' \subseteq Passed \union {hand}  BY <1>6, <1>15 DEF Passed
  <2>5. Cardinality(Passed') <= Cardinality(Passed) + 1  BY <1>3, <2>4, OneMore
  <2>6. Cardinality(Passed') \in Nat  BY <2>4, Finite
  <2> QED  BY <1>1, <1>3, <1>4, <1>5, <1>6, <1>7, <1>15, <2>1, <2>2, <2>5, <2>6 DEF Filling
<1>16. ~ProcTakesCancelled /\ ~ProcReaps /\ ~ProcIdles /\ ~ProcNotified /\ ~ProcHoldsBack /\ ~ProcSkipsWait
       /\ ~ProcWaits
  <2>1. ~ProcTakesCancelled  BY <1>2 DEF ProcTakesCancelled
  <2>2. ~ProcReaps  BY DEF ProcReaps, Early
  <2>3. ~ProcIdles /\ ~ProcNotified  BY <1>1 DEF ProcIdles, ProcNotified
  <2>4. ~ProcHoldsBack  BY <1>1 DEF ProcHoldsBack
  <2>5. ~ProcSkipsWait  BY <1>1 DEF ProcSkipsWait
  <2>6. ~ProcWaits
    <3>1. ProcWaits => pc'["proc"] \in {"returned", "waiting"}  BY <1>0 DEF ProcWaits, Goto, SyncType, Names
    <3> QED  BY <3>1 DEF Early
  <2> QED  BY <2>1, <2>2, <2>3, <2>4, <2>5, <2>6
<1>17. CASE ~Processor
  <2>1. /\ pc'["proc"] = pc["proc"] \/ (pc["proc"] = "none" /\ pc'["proc"] = "top")
           \/ (pc["proc"] = "getting" /\ pc'["proc"] = "takes")
    <3>1. MainStart => pc["proc"] = "none" /\ pc'["proc"] = "top"
      BY <1>0 DEF MainStart, SyncInv, Begun, SyncType, Names
    <3>2. FeedPut => pc'["proc"] = IF pc["proc"] = "getting" THEN "takes" ELSE pc["proc"]
      BY <1>0 DEF FeedPut, SyncType, Names
    <3>3. MonitorUnpauses => pc'["proc"] = pc["proc"]
      BY <1>0, <1>1 DEF MonitorUnpauses, Notified, SyncType, Names
    <3>4. (\E s \in Samples : TaskEnds(s)) => pc'["proc"] = pc["proc"]
      BY <1>0, <1>1 DEF TaskEnds, PcAfterTaskEnd, SyncType, Names
    <3>5. ~ResumeReturns  BY <1>2 DEF ResumeSteps
    <3> QED  BY <1>0, <1>17, <3>1, <3>2, <3>3, <3>4, <3>5 DEF Moved
  <2>2. ~ProcTakes /\ ~ProcSubmits /\ ~ProcSetsPaused  BY <1>17 DEF Processor
  <2>3. waitFor' = waitFor  BY <1>0, <1>16, <2>2 DEF Written
  <2>4. paused' => paused
    <3>1. MonitorUnpauses => paused' = FALSE  BY DEF MonitorUnpauses
    <3> QED  BY <1>0, <1>2, <2>2, <3>1 DEF Written, PauseSteps, ResumeSteps
  <2>5. ~paused \/ pc'["proc"] = pc["proc"]  BY <1>1, <2>1
  <2> QED  BY <1>1, <1>3, <1>5, <1>6, <1>7, <2>1, <2>2, <2>3, <2>4, <2>5 DEF Filling
<1> QED
  BY <1>9, <1>10, <1>11, <1>12, <1>13, <1>14, <1>15, <1>16, <1>17 DEF Processor

LEMMA NextFew ==
  ASSUME OrderInv, OverInv, FinalInv, NoneFails, FewInv, MaxConcurrentSamples < SamplesPerSync, [Next]_vars
  PROVE  FewInv'
<1>1. AsyncInv /\ CountInv /\ GivenInv /\ SyncInv  BY DEF OrderInv, AsyncInv
<1> SUFFICES ASSUME Early' PROVE Unsynced' /\ Filling'  BY DEF FewInv
<1>2. Unsynced /\ Filling  BY <1>1, WasEarly DEF FewInv
<1> QED  BY <1>1, <1>2, FewSync, FewSteps
\* The processor crashes on the task of a failed sample, or on the done_tasks that
\* no wait has assigned.
LEMMA Crashes ==
  ASSUME AsyncInv, NoneFails, Early /\ pc["proc"] = "check" => ActiveTasks > 0, ProcessorSafe, [Next]_vars
  PROVE  ProcessorSafe'
<1>0. Moved /\ SyncType /\ Begun  BY Frames DEF AsyncInv, SyncInv
<1> SUFFICES ASSUME pc'["proc"] = "crashed" PROVE FALSE  BY DEF ProcessorSafe
<1>1. pc["proc"] /= "crashed"  BY DEF ProcessorSafe
<1>2. ~MainStart /\ ~FeedPut /\ ~ResumeReturns /\ ~MonitorUnpauses /\ ~\E s \in Samples : TaskEnds(s)
  BY <1>0, <1>1 DEF MainStart, FeedPut, ResumeReturns, MonitorUnpauses, Notified, TaskEnds, PcAfterTaskEnd,
     SyncType, Names
<1>3. Processor  BY <1>0, <1>1, <1>2 DEF Moved
<1>4. ProcSkipsWait \/ ProcReaps
  BY <1>0, <1>3 DEF Processor, ProcPauses, ProcSetsPaused, ProcTakesCancelled, ProcTakes, ProcAwaitsSample,
     ProcLoopEnds, ProcLoopAcquires, ProcWaits, ProcIdles, ProcHoldsBack, ProcSubmits, ProcNotified, Goto, EndWorker,
     SyncType, Names
<1>5. ~ProcReaps  BY <1>0 DEF ProcReaps, NoneFails, Goto, SyncType, Names
<1>6. ProcSkipsWait /\ ~doneBound /\ pc["proc"] = "check"
  BY <1>0, <1>4, <1>5 DEF ProcSkipsWait, Goto, SyncType, Names
<1>7. Early /\ ActiveTasks = 0  BY <1>6 DEF Early, ProcSkipsWait
<1> QED  BY <1>6, <1>7

\* The tasks it comes to wait for are there.
LEMMA TasksLeft ==
  ASSUME CountInv, Early, pc["proc"] = "check", EarlyInv \/ FewInv
  PROVE  ActiveTasks > 0
<1>1. CASE FewInv  BY <1>1 DEF FewInv, Filling
<1>2. CASE EarlyInv
  <2>1. Live /= {} /\ Cardinality(Live) \in Nat /\ IsFiniteSet(Live)  BY <1>2, ActiveSum DEF EarlyInv, ComesToWait
  <2>2. Cardinality(Live) > 0  BY <2>1, FS_EmptySet
  <2> QED  BY <2>2, ActiveSum
<1> QED  BY <1>1, <1>2

\* What the theorem below is proved from.
SafeInv ==
  /\ OrderInv /\ OverInv /\ FinalInv /\ NoneFails /\ Standing /\ ProcessorSafe
  /\ MaxConcurrentSamples <= PendingSize => EarlyInv
  /\ MaxConcurrentSamples < SamplesPerSync => FewInv

\* Where fewer samples are generated at a time than a synchronisation takes, or
\* pending_queue has a place for each of them, and none raises, the processor
\* never reads a done_tasks that was not assigned.
THEOREM ProcessorSafeHolds ==
  ASSUME MaxFailures = 0, MaxConcurrentSamples < SamplesPerSync \/ MaxConcurrentSamples <= PendingSize
  PROVE  Spec => []ProcessorSafe
<1>1. Init => SafeInv
  <2>1. Init => ProcessorSafe  BY DEF Init, RolloutInit, Names, ProcessorSafe
  <2> QED  BY <2>1, InitOrder, InitOver, InitFinal, InitNone, InitStanding, InitEarly, InitFew DEF SafeInv
<1>2. ASSUME SafeInv, [Next]_vars PROVE SafeInv'
  <2>1. AsyncInv /\ CountInv /\ SyncInv /\ SyncType /\ OrderInv'
    BY <1>2, NextOrder DEF SafeInv, OrderInv, AsyncInv, SyncInv
  <2>2. OverInv' /\ FinalInv' /\ NoneFails' /\ Standing'
    BY <1>2, <2>1, NextOver, NextFinal, NextFails, NextStanding DEF SafeInv
  <2>3. MaxConcurrentSamples <= PendingSize => EarlyInv'  BY <1>2, <2>1, NextEarly DEF SafeInv
  <2>4. MaxConcurrentSamples < SamplesPerSync => FewInv'  BY <1>2, NextFew DEF SafeInv
  <2>5. Early /\ pc["proc"] = "check" => ActiveTasks > 0  BY <1>2, <2>1, TasksLeft DEF SafeInv
  <2>6. ProcessorSafe'  BY <1>2, <2>1, <2>5, Crashes DEF SafeInv
  <2>7. UNCHANGED <<MaxConcurrentSamples, PendingSize, SamplesPerSync>>
    BY DEF MaxConcurrentSamples, MaxRequiredSamples, SamplesPerSync
  <2> QED  BY <2>1, <2>2, <2>3, <2>4, <2>6, <2>7 DEF SafeInv
<1>3. SafeInv => ProcessorSafe  BY DEF SafeInv
<1> QED  BY <1>1, <1>2, <1>3, PTL DEF Spec

\* There, no sample is doubled, none lost but to the full queue, and to that at
\* most one a version.
THEOREM OnePlaceHolds ==
  ASSUME MaxFailures = 0, MaxConcurrentSamples < SamplesPerSync \/ MaxConcurrentSamples <= PendingSize
  PROVE  Spec => []OnePlace
<1>1. Spec => []ProcessorSafe  BY ProcessorSafeHolds
<1>2. Spec /\ []ProcessorSafe => []OnePlace  BY OnePlaceKept
<1> QED  BY <1>1, <1>2

\* And without interruptions, every sample not dropped gets to the trainer.
THEOREM AllDeliveredHolds ==
  ASSUME MaxFailures = 0, ~PartialRollout,
         MaxConcurrentSamples < SamplesPerSync \/ MaxConcurrentSamples <= PendingSize
  PROVE  Spec => []AllDelivered
<1>1. Spec => []ProcessorSafe  BY ProcessorSafeHolds
<1>2. Spec /\ []ProcessorSafe => []AllDelivered  BY AllDeliveredKept
<1> QED  BY <1>1, <1>2
-----------------------------------------------------------------------------
(* Types.                                                                  *)

LEMMA SeqWithin ==
  ASSUME NEW S, NEW T, NEW q \in Seq(S), \A i \in 1 .. Len(q) : q[i] \in T
  PROVE  q \in Seq(T)
BY SeqDef, LenProperties

\* The flags.
Flags ==
  /\ waitFor \in {"drain", "slots", "final"}
  /\ paused \in BOOLEAN /\ rolloutRunning \in BOOLEAN /\ monitorLoopTrigger \in BOOLEAN
  /\ doneBound \in BOOLEAN /\ serversPaused \in BOOLEAN

LEMMA InitFlags == Init => Flags
BY DEF Init, RolloutInit, Flags

LEMMA NextFlags ==
  ASSUME SyncType, Flags, [Next]_vars
  PROVE  Flags'
<1>0. Written  BY Frames
<1>1. waitFor' \in {"drain", "slots", "final"}
  BY <1>0 DEF Written, Flags, ProcSetsPaused, ProcTakesCancelled, ProcTakes
<1>2. paused' \in BOOLEAN /\ rolloutRunning' \in BOOLEAN
  BY <1>0 DEF Written, Flags, ProcSetsPaused, PauseLocked, ResumeReturns, MonitorUnpauses, MainStops
<1>3. monitorLoopTrigger' \in BOOLEAN /\ doneBound' \in BOOLEAN /\ serversPaused' \in BOOLEAN
  BY <1>0 DEF Written, Flags, PauseReturns, ResumeReturns, ProcReaps, ServersCancel, ServersResume
<1> QED  BY <1>1, <1>2, <1>3 DEF Flags

\* Types, for every configuration: coroutines, samples and calls are in one of the
\* states the code has for them, and no queue holds what was not put there.
THEOREM TypeOKHolds == Spec => []TypeOK
<1> DEFINE Inv == OrderInv /\ Standing /\ Flags
<1>1. Init => Inv  BY InitOrder, InitStanding, InitFlags
<1>2. Inv /\ [Next]_vars => Inv'
  <2> SUFFICES ASSUME Inv, [Next]_vars PROVE Inv'  OBVIOUS
  <2>1. SyncType  BY DEF OrderInv, AsyncInv, SyncInv
  <2> QED  BY <2>1, NextOrder, NextStanding, NextFlags
<1>3. Inv => TypeOK
  <2> SUFFICES ASSUME Inv PROVE TypeOK  OBVIOUS
  <2>1. SyncInv /\ SyncType /\ LockInv /\ FlowType /\ CountInv /\ GivenInv /\ GatherInv
    BY DEF OrderInv, AsyncInv, SyncInv, FlowInv
  <2>2. ready \in Seq(Names \X {0} \union {"task"} \X Samples)
    <3>1. ready \in Seq(Coroutines)  BY <2>1 DEF LockInv
    <3>2. Coroutines \subseteq Names \X {0} \union {"task"} \X Samples  BY DEF Coroutines, Co, Task
    <3> QED  BY <3>1, <3>2
  <2>3. pc \in [Names -> UNION {Labels[n] : n \in Names}] /\ \A n \in Names : pc[n] \in Labels[n]
    <3>1. \A n \in Names : pc[n] \in Labels[n]  BY DEF Standing
    <3>2. \A n \in Names : pc[n] \in UNION {Labels[m] : m \in Names}  BY <3>1
    <3> HIDE DEF Names
    <3> QED  BY <2>1, <3>1, <3>2 DEF SyncType
  <2>4. pendingQueue \in Seq(1 .. End)
    <3>1. /\ pendingQueue \in Seq(Nat) /\ Len(pendingQueue) \in Nat /\ Len(pendingQueue) <= FedTo
          /\ \A i \in 1 .. Len(pendingQueue) : pendingQueue[i] = TakenTo + i
      BY <2>1, LenProperties DEF FlowType
    <3>2. FedTo \in Nat /\ FedTo <= End /\ End \in Nat
      BY <2>1, SharedAssumption DEF FlowType, FedTo, Samples, End
    <3>3. \A i \in 1 .. Len(pendingQueue) : pendingQueue[i] \in 1 .. End
      BY <3>1, <3>2 DEF TakenTo
    <3> QED  BY <3>1, <3>3, SeqWithin
  <2>5. batch \subseteq Samples  BY <2>1 DEF GivenInv, Given
  <2> QED
    BY <2>1, <2>2, <2>3, <2>4, <2>5 DEF TypeOK, Flags, FlowType, CountInv, SyncType, GatherInv
<1> QED  BY <1>1, <1>2, <1>3, PTL DEF Spec
-----------------------------------------------------------------------------
(* The pipeline that the three processes implement.                        *)

LEMMA PipeCardinality == \A S : Pipe!Cardinality(S) = Cardinality(S)
BY DEF Pipe!Cardinality, Cardinality

\* What is gone is lost, and what is taken are the first TakenTo samples.
Seen == Gone = Lost /\ Taken = {s \in Samples : s <= TakenTo}

LEMMA FlowSeen == FlowInv => Seen
BY GoneLost, TakenUpTo DEF Seen

\* Where a sample is in the pipeline, by what the other invariants speak of.
LEMMA PhaseIs ==
  ASSUME Seen
  PROVE  phaseOfSample = [s \in Samples |->
           IF s \in Trained THEN "given" ELSE IF s \in Lost THEN "dropped"
           ELSE IF s <= TakenTo THEN "ahead" ELSE "waiting"]
BY DEF Seen, phaseOfSample, Given, Trained

LEMMA NextPhaseIs ==
  ASSUME Seen'
  PROVE  phaseOfSample' = [s \in Samples |->
           IF s \in Trained' THEN "given" ELSE IF s \in Lost' THEN "dropped"
           ELSE IF s <= TakenTo' THEN "ahead" ELSE "waiting"]
BY DEF Seen, phaseOfSample, Given, Trained

LEMMA AheadIsHeld ==
  ASSUME FlowInv
  PROVE  Pipe!In("ahead") = Held /\ Pipe!In("given") = Given
<1>1. \A s \in Samples : phaseOfSample[s] = "ahead" <=> s \notin Trained /\ s \notin Lost /\ s <= TakenTo
  BY FlowSeen, PhaseIs
<1>2. \A s \in Samples : phaseOfSample[s] = "given" <=> s \in Trained  BY FlowSeen, PhaseIs
<1>3. \A s \in Samples : s \in Held <=> s \notin Trained /\ s \notin Lost /\ s <= TakenTo
  BY Whereabouts DEF Lost
<1>4. Held \subseteq Samples  BY HeldSets
<1> QED  BY <1>1, <1>2, <1>3, <1>4 DEF Pipe!In, Given, Trained

\* A trainer that has its finish signal, and was not interrupted, has left nothing behind.
LEMMA NothingAhead ==
  ASSUME FlowInv, GivenInv, OverInv, FinalInv, EndInv, ProcessorSafe, cancelQueue = <<>>, Ended
  PROVE  TakenTo = End /\ Held = {}
<1>1. End \in Trained /\ queue = <<>>  BY DEF GivenInv, EndInv
<1>2. pc["proc"] = "done" /\ TakenTo = End /\ Live = {}
  BY <1>1 DEF OverInv, ProcOver, ProcessorSafe, FinalInv
<1>3. hand = NoSample /\ \A s \in Samples : task[s] = "none"  BY <1>2 DEF FlowInv, FlowType, InHand, Live
<1>4. \A s \in Samples : ~In(queue, s) /\ ~In(cancelQueue, s)  BY <1>1, EmptySeq DEF In
<1>5. \A s \in Samples : s \notin Held  BY <1>3, <1>4, Sizes, Whereabouts
<1> QED  BY <1>2, <1>5, HeldSets

\* A put moves the coroutine that made it.
LEMMA DropMoves ==
  ASSUME SyncInv, FlowInv, NEW s \in Samples, Dropped(s)
  PROVE  rolloutVars' /= rolloutVars
<1>1. CASE FinishSignalArrives
  <2>1. pc' /= pc  BY <1>1 DEF FinishSignalArrives, Goto, SyncInv, SyncType, Names
  <2> QED  BY <2>1 DEF rolloutVars
<1>2. CASE \E r \in Samples : PutArrives(r)
  <2>1. task' /= task  BY <1>2 DEF PutArrives, FlowInv, FlowType
  <2> QED  BY <2>1 DEF rolloutVars, flowVars
<1> QED  BY <1>1, <1>2 DEF Dropped, Puts

\* The processor begins a sample, with room for it.
LEMMA TakeBegins ==
  ASSUME PlaceInv, PlaceInv', ProcessorSafe, Seen, Seen', [Next]_vars, TakenTo' /= TakenTo
  PROVE  UNCHANGED <<phaseOfSample, trainerVersion>> \/ \E s \in Samples : Pipe!Begin(s)
<1>0. /\ AsyncInv /\ AsyncInv' /\ SyncInv /\ SyncType /\ FlowInv /\ FlowInv' /\ CountInv /\ GivenInv
      /\ OverInv /\ FinalInv /\ EndInv /\ NoneFails /\ LossInv
  BY DEF PlaceInv, OrderInv, AsyncInv, SyncInv
<1>1. Written  BY <1>0, Frames
<1>2. ProcTakes /\ TakenTo' = TakenTo + 1 /\ TakenTo \in Nat /\ TakenTo <= End  BY <1>0, NextTaken
<1>3. pc["proc"] \in {"top", "takes"} /\ pc'["proc"] = "loop"  BY <1>0, <1>2 DEF ProcTakes, SyncType, Names
<1>4. rolloutVars' /= rolloutVars
  <2>1. pc' /= pc  BY <1>3
  <2> QED  BY <2>1 DEF rolloutVars
<1>5. Trained' = Trained /\ trainerVersion' = trainerVersion
  BY <1>1, <1>4 DEF Written, Collects, Trained, trainVars, stepVars
<1>6. \A d \in Samples : ~Dropped(d)  BY <1>0, <1>3, Drops
<1>7. Lost' = Lost  BY <1>0, <1>6, Loads DEF LossInv
<1>8. Cardinality(Held) <= MaxRequiredSamples
  <2>1. /\ stalenessSamples \in Nat /\ Cardinality(Held) \in Nat /\ MaxRequiredSamples \in Nat
        /\ Cardinality(Held) <= stalenessSamples + 1
        /\ pc["proc"] = "takes" => Cardinality(Held) <= MaxRequiredSamples
    BY <1>0, Sizes, HeldSets, Finite DEF CountInv
  <2>2. pc["proc"] = "top" => stalenessSamples < MaxRequiredSamples
    BY <1>2, <2>1 DEF ProcTakes, ShouldPause
  <2> QED  BY <1>3, <2>1, <2>2
<1> DEFINE s == TakenTo + 1
<1>9. phaseOfSample' = [r \in Samples |->
           IF r \in Trained THEN "given" ELSE IF r \in Lost THEN "dropped"
           ELSE IF r <= s THEN "ahead" ELSE "waiting"]
  BY <1>2, <1>5, <1>7, NextPhaseIs
<1>10. CASE s = End
  <2>1. \A r \in Samples : r <= s /\ r <= TakenTo  BY <1>2, <1>10, Sizes DEF Samples
  <2> QED  BY <1>5, <1>9, <2>1, PhaseIs
<1>11. CASE s /= End
  <2>1. s \in Samples
    <3>1. TakenTo /= End  BY <1>0, <1>3 DEF FinalInv
    <3> QED  BY <1>2, <1>11, <3>1, Sizes DEF Samples
  <2>2. s \notin Trained /\ s \notin Lost /\ ~(s <= TakenTo)
    <3>1. ~(s <= TakenTo)  BY <1>2
    <3> QED  BY <1>0, <2>1, <3>1, Whereabouts DEF Lost
  <2>3. \A r \in Samples : r <= s <=> r <= TakenTo \/ r = s  BY <1>2 DEF Samples
  <2>4. phaseOfSample[s] = "waiting"  BY <2>1, <2>2, PhaseIs
  <2>5. phaseOfSample' = [phaseOfSample EXCEPT ![s] = "ahead"]
    <3> HIDE DEF s
    <3> QED  BY <1>9, <2>1, <2>2, <2>3, PhaseIs
  <2>6. Pipe!Cardinality(Pipe!In("ahead")) < MaxRequiredSamples + 1
    <3>1. Pipe!Cardinality(Pipe!In("ahead")) = Cardinality(Held)  BY <1>0, AheadIsHeld, PipeCardinality
    <3>2. Cardinality(Held) \in Nat /\ MaxRequiredSamples \in Nat  BY HeldSets, Finite, Sizes
    <3> QED  BY <1>8, <3>1, <3>2
  <2> HIDE DEF s
  <2>7. Pipe!Begin(s)  BY <1>5, <2>4, <2>5, <2>6 DEF Pipe!Begin
  <2> QED  BY <2>1, <2>7
<1> QED  BY <1>10, <1>11

\* What the trainer collects is given to it.
LEMMA CollectGives ==
  ASSUME PlaceInv, PlaceInv', ProcessorSafe, Seen, Seen', [Next]_vars, Collects
  PROVE  UNCHANGED <<phaseOfSample, trainerVersion>> \/ \E s \in Samples : Pipe!Give(s)
<1>0. /\ AsyncInv /\ SyncInv /\ FlowInv /\ FlowInv' /\ GivenInv /\ EndInv /\ NoneFails
  BY DEF PlaceInv, OrderInv, AsyncInv
<1>1. TakenTo' = TakenTo /\ trainerVersion' = trainerVersion
  BY DEF Collects, Collect, stepVars, rolloutVars, restVars, flowVars, TakenTo, FedTo
<1> DEFINE s == Head(queue)
<1>2. /\ queue /= <<>> /\ s \in 1 .. End /\ Trained' = Trained \union {s}
      /\ s /= End => s \in Samples \ Given
  BY <1>0, Collected DEF Collects
<1>3. In(queue, s)
  <2>1. queue \in Seq(1 .. End)  BY <1>0 DEF FlowInv, FlowType
  <2> QED  BY <1>2, <2>1, HeadLeaves
<1>4. \A r \in Samples : ~Dropped(r)
  <2> SUFFICES ASSUME NEW r \in Samples, Dropped(r) PROVE FALSE  OBVIOUS
  <2>1. rolloutVars' /= rolloutVars  BY <1>0, DropMoves
  <2> QED  BY <2>1 DEF Collects
<1>5. \A r \in Samples : r \in Lost' <=> r \in Lost  BY <1>0, <1>4, LostMoves
<1> HIDE DEF s
<1>6. CASE s = End
  <2>1. \A r \in Samples : r \in Trained' <=> r \in Trained  BY <1>2, <1>6, Sizes
  <2> QED  BY <1>1, <1>5, <2>1, PhaseIs, NextPhaseIs
<1>7. CASE s /= End
  <2>1. s \in Samples /\ s \notin Trained /\ In(queue, s)  BY <1>2, <1>3, <1>7 DEF Given, Trained
  <2>2. s <= TakenTo /\ s \notin Lost  BY <1>0, <2>1, Whereabouts DEF Lost
  <2>3. phaseOfSample[s] = "ahead"  BY <2>1, <2>2, PhaseIs
  <2>4. phaseOfSample' = [phaseOfSample EXCEPT ![s] = "given"]
    BY <1>1, <1>2, <1>5, <2>1, PhaseIs, NextPhaseIs
  <2> QED  BY <1>1, <2>1, <2>3, <2>4 DEF Pipe!Give
<1> QED  BY <1>6, <1>7

\* What the full queue loses is dropped.
LEMMA LossDrops ==
  ASSUME PlaceInv, PlaceInv', ProcessorSafe, Seen, Seen', [Next]_vars, NEW s \in Samples, Dropped(s)
  PROVE  Pipe!Drop(s)
<1>0. /\ AsyncInv /\ AsyncInv' /\ SyncInv /\ SyncType /\ FlowInv /\ GivenInv /\ OverInv /\ FinalInv /\ EndInv
      /\ NoneFails
  BY DEF PlaceInv, OrderInv, AsyncInv, SyncInv
<1>1. Written  BY <1>0, Frames
<1>2. Lost' = Lost \union {s} /\ s \notin Lost /\ pc'["proc"] = pc["proc"]  BY <1>0, Drops
<1>3. Trained' = Trained /\ s \in Held /\ s \notin Trained /\ s <= TakenTo
  BY <1>0, QueueMoves, HeldMoves, Whereabouts
<1>4. TakenTo' = TakenTo
  <2>1. ~ProcTakes
    <3>1. ProcTakes => pc["proc"] \in {"top", "takes"} /\ pc'["proc"] = "loop"
      BY <1>0 DEF ProcTakes, SyncType, Names
    <3> QED  BY <1>2, <3>1
  <2> QED  BY <1>0, <2>1, NextTaken
<1>5. trainerVersion' = trainerVersion
  <2>1. rolloutVars' /= rolloutVars  BY <1>0, DropMoves
  <2> QED  BY <1>1, <2>1 DEF Written, trainVars, stepVars
<1>6. phaseOfSample[s] = "ahead"  BY <1>2, <1>3, PhaseIs
<1>7. phaseOfSample' = [phaseOfSample EXCEPT ![s] = "dropped"]
  BY <1>2, <1>3, <1>4, PhaseIs, NextPhaseIs
<1> QED  BY <1>5, <1>6, <1>7 DEF Pipe!Drop

\* A version is made of enough samples, or of what is left when nothing is ahead.
LEMMA VersionUpdates ==
  ASSUME PlaceInv, GivenInv', NoneCancelled, ProcessorSafe, [Next]_vars, UNCHANGED phaseOfSample, Trained' = Trained
  PROVE  UNCHANGED <<phaseOfSample, trainerVersion>> \/ Pipe!Update
<1>0. SyncType /\ FlowInv /\ GivenInv /\ OverInv /\ FinalInv /\ EndInv
  BY DEF PlaceInv, OrderInv, AsyncInv, SyncInv
<1>1. Written  BY <1>0, Frames
<1>2. \/ trainerVersion' = trainerVersion
      \/ trainerVersion' = trainerVersion + 1 /\ ((tpc = "train" /\ tpc' = "waitValid" /\ afterSync' = "log")
                                                 \/ tpc = "decide")
  <2>1. UNCHANGED trainVars \/ TrainNext  BY <1>1 DEF Written
  <2>2. CASE TrainStep
    BY <2>2 DEF TrainStep, NewVersion
  <2>3. CASE DecideExtraSync  BY <2>3 DEF DecideExtraSync, NewVersion
  <2>4. ASSUME LogValidation \/ CollectWaits \/ Collect \/ SyncPauses \/ SyncVersions \/ SyncTransfers
               \/ SaveCheckpoint \/ LastWait
        PROVE  trainerVersion' = trainerVersion
    <3>1. CASE LogValidation \/ SaveCheckpoint  BY <3>1 DEF LogValidation, SaveCheckpoint, stepVars
    <3>2. CASE CollectWaits \/ Collect  BY <3>2 DEF CollectWaits, Collect, trainVars, stepVars
    <3>3. CASE SyncPauses \/ SyncVersions \/ SyncTransfers \/ LastWait
      BY <3>3 DEF SyncPauses, SyncVersions, SyncTransfers, LastWait, stepVars
    <3> QED  BY <2>4, <3>1, <3>2, <3>3
  <2> QED  BY <2>1, <2>2, <2>3, <2>4 DEF TrainNext, trainVars, stepVars
<1>3. trainerVersion \in Nat /\ Cardinality(Given) \in Nat
  <2>1. Given \in SUBSET Samples  BY DEF Given
  <2> QED  BY <1>0, <2>1, Finite DEF SyncType
<1>4. Pipe!Cardinality(Pipe!In("given")) = Cardinality(Given)  BY <1>0, AheadIsHeld, PipeCardinality
<1>5. CASE trainerVersion' = trainerVersion + 1 /\ tpc = "train" /\ tpc' = "waitValid" /\ afterSync' = "log"
  <2>1. Given' = Given  BY DEF Given, Trained
  <2>2. Cardinality(Given) = SamplesPerSync * trainerVersion'
                               + RequiredSamples * (localTriggerStep' - 1) + Cardinality(batch')
        /\ localTriggerStep' = 1 /\ batch' = {}
    BY <1>5, <2>1 DEF GivenInv, Ended
  <2>3. Cardinality(batch') = 0  BY <2>2, FS_EmptySet
  <2>4. SamplesPerSync * trainerVersion' <= Cardinality(Given)
    <3>1. RequiredSamples * (localTriggerStep' - 1) = 0 /\ SamplesPerSync * trainerVersion' \in Nat
      BY <1>3, <1>5, <2>2, Sizes
    <3> QED  BY <1>3, <2>2, <2>3, <3>1
  <2> QED  BY <1>4, <1>5, <2>4 DEF Pipe!Update
<1>6. CASE trainerVersion' = trainerVersion + 1 /\ tpc = "decide"
  <2>1. TakenTo = End /\ Held = {}
    <3>1. Ended /\ cancelQueue = <<>>  BY <1>6 DEF Ended, NoneCancelled
    <3> QED  BY <1>0, <3>1, NothingAhead
  <2>2. Pipe!In("ahead") = {}  BY <1>0, <2>1, AheadIsHeld
  <2>3. Pipe!In("waiting") = {}
    <3>1. \A s \in Samples : s <= TakenTo  BY <2>1, Sizes DEF Samples
    <3> QED  BY <1>0, <3>1, FlowSeen, PhaseIs DEF Pipe!In
  <2>4. SamplesPerSync * trainerVersion <= Pipe!Cardinality(Samples)
    <3>1. SamplesPerSync * trainerVersion <= Cardinality(Given)  BY <1>6 , <1>0 DEF GivenInv
    <3>2. Cardinality(Given) <= Cardinality(Samples) /\ Cardinality(Samples) \in Nat
      <4>1. IsFiniteSet(Samples) /\ Given \subseteq Samples  BY Finite DEF Given
      <4> QED  BY <4>1, FS_Subset, FS_CardinalityType
    <3>3. SamplesPerSync * trainerVersion \in Nat  BY <1>3, Sizes
    <3> QED  BY <1>3, <3>1, <3>2, <3>3, PipeCardinality
  <2> QED  BY <1>6, <2>2, <2>3, <2>4 DEF Pipe!Update
<1> QED  BY <1>2, <1>5, <1>6

LEMMA PipelineSteps ==
  ASSUME PlaceInv, PlaceInv', NoneCancelled, ProcessorSafe, Seen, Seen', [Next]_vars
  PROVE  [Pipe!Next]_<<phaseOfSample, trainerVersion>>
<1>0. /\ SyncInv /\ SyncType /\ FlowInv /\ FlowInv' /\ GivenInv /\ GivenInv' /\ EndInv /\ NoneFails
  BY DEF PlaceInv, OrderInv, AsyncInv, SyncInv
<1>1. CASE TakenTo' /= TakenTo  BY <1>1, TakeBegins DEF Pipe!Next
<1>2. CASE Collects  BY <1>2, CollectGives DEF Pipe!Next
<1>3. CASE \E s \in Samples : Dropped(s)  BY <1>3, LossDrops DEF Pipe!Next
<1>4. CASE TakenTo' = TakenTo /\ ~Collects /\ \A s \in Samples : ~Dropped(s)
  <2>1. Trained' = Trained  BY <1>0, <1>4, Frames DEF Written, Trained
  <2>2. \A s \in Samples : s \in Lost' <=> s \in Lost  BY <1>0, <1>4, LostMoves
  <2>3. phaseOfSample' = phaseOfSample  BY <1>4, <2>1, <2>2, PhaseIs, NextPhaseIs
  <2> QED  BY <1>0, <2>1, <2>3, VersionUpdates DEF Pipe!Next
<1> QED  BY <1>1, <1>2, <1>3, <1>4

\* Where fewer samples are generated at a time than a synchronisation takes, or
\* pending_queue has a place for each of them, and none raises or is interrupted,
\* the three processes implement the pipeline:
\* whatever the order of calls, wake-ups and answers, the rollout is at most
\* max_required_samples and one ahead, a sample is given to the trainer once or
\* dropped, and a version takes the samples of a version, or all that are left.
THEOREM PipelineHolds ==
  ASSUME MaxFailures = 0, ~PartialRollout,
         MaxConcurrentSamples < SamplesPerSync \/ MaxConcurrentSamples <= PendingSize
  PROVE  Spec => Pipe!Spec
<1>1. Spec => []ProcessorSafe  BY ProcessorSafeHolds
<1>2. Spec /\ []ProcessorSafe => []PlaceInv  BY PlacesKept
<1>3. Init => NoneCancelled  BY InitNone
<1>4. PlaceInv /\ NoneCancelled /\ [Next]_vars => NoneCancelled'
  BY NextCancelled DEF PlaceInv, OrderInv
<1>5. PlaceInv => Seen  BY FlowSeen DEF PlaceInv, OrderInv, AsyncInv
<1>6. PlaceInv /\ PlaceInv' /\ NoneCancelled /\ ProcessorSafe /\ Seen /\ Seen' /\ [Next]_vars
        => [Pipe!Next]_<<phaseOfSample, trainerVersion>>
  BY PipelineSteps
<1>7. Init => Pipe!Init
  <2> SUFFICES ASSUME Init PROVE Pipe!Init  OBVIOUS
  <2>1. PlaceInv  BY InitOrder, InitOver, InitFinal, InitEnd, InitNone, InitLoss DEF PlaceInv
  <2>2. trainerVersion = 0 /\ Trained = {} /\ TakenTo = 0
    BY Sizes DEF Init, TrainInit, SharedInit, RolloutInit, Trained, TakenTo, FedTo, Names
  <2>3. Seen  BY <2>1, <1>5
  <2>4. \A s \in Samples : ~(s <= TakenTo) /\ s \notin Trained /\ s \notin Lost
    BY <2>2 DEF Samples, Lost
  <2>5. phaseOfSample = [s \in Samples |-> "waiting"]  BY <2>3, <2>4, PhaseIs
  <2> QED  BY <2>2, <2>5 DEF Pipe!Init
<1> QED  BY <1>1, <1>2, <1>3, <1>4, <1>5, <1>6, <1>7, PTL DEF Spec, Pipe!Spec
=============================================================================
